---- MODULE Spec2Model ----
(***************************************************************************)
(* rustnnpt: the execution bridge (src/bridge/runner-client.js) and the     *)
(* conformance orchestrator (src/wpt/run-conformance.js) as state machines. *)
(*                                                                          *)
(* SpecBridge:   one RunnerClient with any number of concurrent callers.    *)
(* SpecRun:      main() of run-conformance.js driving that RunnerClient.    *)
(* SpecClassify: one call of shouldSkipTest (run-conformance.js).           *)
(* SpecVerify:   one call of assertOutputClose (tolerance.js).              *)
(* SpecUlp:      one call of ulpDistanceF32 (tolerance.js).                 *)
(* SpecGraph:    one call of buildGraphJson (build-graph-json.js), or one   *)
(*               MLGraphBuilder of the shim and its caller.                 *)
(* SpecRuntime:  one call of buildRuntimeInputs, castActual, castExpected, *)
(*               makeZeroData or toPlainArray on one tensor.                *)
(* SpecExtract:  one call of extractTestsFromSource (extract-tests.js).     *)
(* SpecContext:  one MLContext with one output tensor, and callers of      *)
(*               executeGraphResources, on one RunnerClient.                *)
(* SpecRunFair:  SpecRun under fair scheduling.                             *)
(*                                                                          *)
(* One step of the model is one JavaScript task: an event handler, or the   *)
(* stretch of an async function between two awaits.                         *)
(***************************************************************************)
EXTENDS Integers, Sequences, FiniteSets, TLC

VARIABLES
    \* ---- RunnerClient (runner-client.js) and its worker process
    spawned,        \* number of spawn() calls made so far
    procState,      \* "none" (no client yet) | "running" | "exited"
    killed,         \* this.proc.killed
    stdinEnds,      \* number of this.proc.stdin.end() calls
    termSignals,    \* number of SIGTERM signals delivered to the worker
    closeCalls,     \* number of close() calls
    pending,        \* keys of this.pending (the waiter of id is handle[id])
    handle,         \* per request id: the promise executeGraph returned
    nextId,         \* number of ids randomUUID() has produced
    delivered,      \* ids of the requests the worker has received on stdin
    uncaught,       \* an exception escaped an event handler: Node has died
    \* ---- main() of run-conformance.js
    pc,             \* where main() is suspended
    opts,           \* parseArgs(process.argv)
    fs,             \* the fixture directory as main() finds it
    fixtures,       \* what readFile + extractTestsFromSource gave, per file read
    tests,          \* the tests of the file being run
    fileIdx,        \* position of the file loop (1-based)
    variantIdx,     \* position of the variant loop (1-based)
    testIdx,        \* position of the test loop (1-based; testIndex + 1)
    curReq,         \* id of the request runSingleTest awaits
    passed,
    failed,
    skipped,
    failures,       \* failures, which is also report.failures
    reportFiles,    \* report.files
    summary,        \* report.summary
    halted,
    fatalError,
    exitCode,       \* "none" while main() runs, else the process.exit() code
    \* ---- one call of a function that keeps no state
    call,           \* the arguments of the call
    result,         \* what the call returned or threw, NotCalled before it
    \* ---- one MLGraphBuilder and its caller
    builderInputs,  \* this.inputs
    builderNodes,   \* this.nodes
    tempId,         \* this.tempId
    operands,       \* the MLOperands the builder has returned
    opCalls,        \* the operator methods called so far, in order
    graphJson,      \* the graphJson of the last build(), NoDocument before
    \* ---- one MLContext, its output MLTensor and the requests sent
    outTensor,      \* the MLTensor: its data and its pending promise
    reading,        \* the readTensor() call on the tensor
    payloads        \* the payloads an MLContext or executeGraphResources sent

bridgeVars ==
    <<spawned, procState, killed, stdinEnds, termSignals, closeCalls,
      pending, handle, nextId, delivered, uncaught>>

mainVars ==
    <<pc, opts, fs, fixtures, tests, fileIdx, variantIdx, testIdx, curReq,
      passed, failed, skipped, failures, reportFiles, summary, halted,
      fatalError, exitCode>>

callVars == <<call, result>>

builderVars ==
    <<builderInputs, builderNodes, tempId, operands, opCalls, graphJson>>

contextVars == <<outTensor, reading, payloads>>

vars == <<bridgeVars, mainVars, callVars, builderVars, contextVars>>

-----------------------------------------------------------------------------
(* Bounds of the model.                                                     *)

MaxRequests == 3
MaxClose == 2
MaxRunRequests == 2

-----------------------------------------------------------------------------
(* tolerance.js.                                                            *)
(*                                                                          *)
(* A JavaScript number is NaN, +/-Infinity, or a finite value               *)
(* (-1)^neg * m * 2^x with m a natural number, kept with m odd (or m = 0,   *)
(* x = 0) so that one value has one record; +0 and -0 differ in neg only.   *)
(* A "str" value is the decimal string of the integer (-1)^neg * m * 2^x.   *)

\* The powers of two that are smaller than 2^31.
PowersOfTwo ==
    <<1, 2, 4, 8, 16, 32, 64, 128, 256, 512, 1024, 2048, 4096, 8192, 16384,
      32768, 65536, 131072, 262144, 524288, 1048576, 2097152, 4194304,
      8388608, 16777216, 33554432, 67108864, 134217728, 268435456,
      536870912, 1073741824>>

\* 2^k for k in 0..30
Pow2(k) == PowersOfTwo[k + 1]

\* The position of the highest 1 bit of n >= 1 (0 for n = 0).
Log2Floor(n) == Cardinality({ k \in 2..31 : PowersOfTwo[k] <= n })

\* The number of 0 bits below the lowest 1 bit of n >= 1.
TrailingZeros(n) == Cardinality({ k \in 2..31 : n % PowersOfTwo[k] = 0 })

Abs(x) == IF x < 0 THEN 0 - x ELSE x

\* The finite number (-1)^neg * m * 2^x.
Num(neg, m, x) ==
    IF m = 0 THEN [k |-> "fin", neg |-> neg, m |-> 0, x |-> 0]
    ELSE LET t == TrailingZeros(m) IN
         [k |-> "fin", neg |-> neg, m |-> m \div Pow2(t), x |-> x + t]

\* The natural number n.
Natural(n) == Num(FALSE, n, 0)

\* The array of the natural numbers s.
Numbers(s) == [i \in DOMAIN s |-> Natural(s[i])]

NaN == [k |-> "nan", neg |-> FALSE, m |-> 0, x |-> 0]

Infinity(neg) == [k |-> "inf", neg |-> neg, m |-> 0, x |-> 0]

\* The decimal string of the integer v.
DecimalString(v) == [v EXCEPT !.k = "str"]

\* Number(value): a number is itself, a decimal string is the number it
\* spells.
Number(v) == IF v.k = "str" THEN [v EXCEPT !.k = "fin"] ELSE v

\* Number.isFinite, Number.isNaN
IsFinite(v) == v.k = "fin"

IsNaN(v) == v.k = "nan"

\* a === b on numbers: NaN equals nothing, +0 equals -0.
StrictEquals(a, b) ==
    /\ ~IsNaN(a)
    /\ ~IsNaN(b)
    /\ \/ a = b
       \/ IsFinite(a) /\ IsFinite(b) /\ a.m = 0 /\ b.m = 0

\* Object.is(a, b): NaN is NaN, +0 is not -0.
ObjectIs(a, b) == a = b

\* m / 2^s rounded to the nearest integer, ties to even.
RoundHalfEven(m, s) ==
    IF s = 0 THEN m
    ELSE LET q == m \div Pow2(s)
             r == m % Pow2(s)
             half == Pow2(s - 1)
         IN  IF r > half \/ (r = half /\ q % 2 = 1) THEN q + 1 ELSE q

\* float32Bits(v) for a finite v of float32 range: f32[0] = v rounds v to
\* the nearest float32, u32[0] is its bit pattern sign * 2^31 + mag, kept
\* here as the pair of the sign bit and the 31 low bits.
float32Bits(v) ==
    LET L == Log2Floor(v.m)
        E == L + v.x
        mag == IF v.m = 0 THEN 0
               ELSE IF E >= -126
               THEN (E + 126) * Pow2(23)
                    + (IF L <= 23 THEN v.m * Pow2(23 - L)
                       ELSE RoundHalfEven(v.m, L - 23))
               ELSE IF v.x >= -149 THEN v.m * Pow2(v.x + 149)
               ELSE RoundHalfEven(v.m, -149 - v.x)
    IN  [sign |-> IF v.neg THEN 1 ELSE 0, mag |-> mag]

\* An ordering that gives -0 a place of its own below +0.
toOrderedTwoZeros(bits) == IF bits.sign = 1 THEN 0 - bits.mag - 1 ELSE bits.mag

\* toOrdered(bits) - 0x80000000: the patterns of the negative floats count
\* down from 0x80000000 and those of the others count up from it.
toOrdered(bits) == IF bits.sign = 1 THEN 0 - bits.mag ELSE bits.mag

\* What ulpDistanceF32 returns: Infinity, or the natural number
\* hi * 2^16 + lo (it can be 2^31 and more).
Ulps(hi, lo) == [infinite |-> FALSE, hi |-> hi, lo |-> lo]

InfiniteUlps == [infinite |-> TRUE, hi |-> 0, lo |-> 0]

\* Math.abs(oa - ob)
OrderedDistance(oa, ob) ==
    IF (oa >= 0 /\ ob >= 0) \/ (oa <= 0 /\ ob <= 0)
    THEN LET d == Abs(oa - ob) IN Ulps(d \div Pow2(16), d % Pow2(16))
    ELSE LET x == Abs(oa)
             y == Abs(ob)
             lo == (x % Pow2(16)) + (y % Pow2(16))
         IN  Ulps((x \div Pow2(16)) + (y \div Pow2(16)) + (lo \div Pow2(16)),
                  lo % Pow2(16))

\* ulpDistanceF32(a, b)
ulpDistanceF32(a, b) ==
    IF ObjectIs(a, b) THEN Ulps(0, 0)
    ELSE IF ~IsFinite(a) \/ ~IsFinite(b)
    THEN IF StrictEquals(a, b) THEN Ulps(0, 0) ELSE InfiniteUlps
    ELSE OrderedDistance(toOrdered(float32Bits(a)), toOrdered(float32Bits(b)))

\* const OP_ULP
OP_ULP ==
    [add |-> 1, sub |-> 1, mul |-> 1, div |-> 2, relu |-> 0, sigmoid |-> 34,
     tanh |-> 16, softmax |-> 256, matmul |-> 512, exp |-> 4, log |-> 4,
     sqrt |-> 2, reduce_sum |-> 8, reduce_mean |-> 16, reduce_max |-> 0,
     reduce_min |-> 0, reduce_product |-> 32, reduce_l1 |-> 8,
     reduce_l2 |-> 16, reduce_log_sum |-> 16, reduce_log_sum_exp |-> 32,
     reduce_sum_square |-> 16]

\* A ULP budget of 4 whatever the operator.
UlpTolAlwaysDefault(operatorName) == 4

\* OP_ULP[operatorName] ?? 4
UlpTol(operatorName) ==
    IF operatorName \in DOMAIN OP_ULP THEN OP_ULP[operatorName] ELSE 4

\* A tolerance num/den.
Ratio(num, den) == [num |-> num, den |-> den]

\* const OP_ABS_TOL
OP_ABS_TOL ==
    [cos |-> [float32 |-> Ratio(1, 1024), float16 |-> Ratio(1, 128)],
     sin |-> [float32 |-> Ratio(1, 2048), float16 |-> Ratio(1, 128)]]

\* dataType.startsWith('float'), for the data types of the model.
StartsWithFloat(dataType) == dataType \in {"float32", "float16", "float64"}

\* OP_ABS_TOL[operatorName]?.[dataType] ?? (dataType.startsWith('float') ? 1e-4 : 0)
AbsTol(operatorName, dataType) ==
    IF operatorName \in DOMAIN OP_ABS_TOL
       /\ dataType \in DOMAIN OP_ABS_TOL[operatorName]
    THEN OP_ABS_TOL[operatorName][dataType]
    ELSE IF StartsWithFloat(dataType)
    THEN Ratio(1, 10000)
    ELSE Ratio(0, 1)

\* The whole part and the fraction, in units of 2^-k, of the finite v with
\* its sign: v = whole + frac / 2^k. For multiples of 2^-k.
Parts(v, k) ==
    LET w == IF v.x >= 0 THEN v.m * Pow2(v.x) ELSE v.m \div Pow2(0 - v.x)
        f == IF v.x >= 0 THEN 0 ELSE (v.m % Pow2(0 - v.x)) * Pow2(k + v.x)
    IN  IF v.neg THEN [whole |-> 0 - w, frac |-> 0 - f]
        ELSE [whole |-> w, frac |-> f]

Max(x, y) == IF x >= y THEN x ELSE y

\* Math.abs(a - e) for finite a and e, as whole + frac / 2^k with
\* 0 <= frac < 2^k (the difference is formed exactly; no number of the model
\* is near enough to a tolerance for the rounding of a - e to matter).
AbsDiff(a, e) ==
    LET k == Max(0, Max(0 - a.x, 0 - e.x))
        pa == Parts(a, k)
        pe == Parts(e, k)
        f == pa.frac - pe.frac
        w == pa.whole - pe.whole + (f \div Pow2(k))
        g == f % Pow2(k)
    IN  IF w >= 0 THEN [whole |-> w, frac |-> g, k |-> k]
        ELSE IF g = 0 THEN [whole |-> 0 - w, frac |-> 0, k |-> k]
        ELSE [whole |-> 0 - w - 1, frac |-> Pow2(k) - g, k |-> k]

\* absDiff > absTol, for absTol = num/den < 1.
ExceedsTol(d, tol) ==
    d.whole >= 1 \/ d.frac > (tol.num * Pow2(d.k)) \div tol.den

\* ulp > ulpTol, for ulpTol < 2^16.
ExceedsUlps(ulp, ulpTol) == ulp.infinite \/ ulp.hi > 0 \/ ulp.lo > ulpTol

\* BigInt(value): the integer a number or a decimal string stands for; a
\* RangeError for a number that is not an integer.
IsInteger(v) == v.k \in {"fin", "str"} /\ v.x >= 0

BigInt(v) == IF v.neg THEN 0 - v.m * Pow2(v.x) ELSE v.m * Pow2(v.x)

\* An error message: its text, the output and the element index it names.
Message(text, output, index) ==
    [text |-> text, output |-> output, index |-> index]

NoMessage == Message("", "", -1)

\* The element loops without the "both NaN" turn.
ElementErrorNaNStrict(operatorName, dataType, e, a) ==
    IF dataType \in {"int64", "uint64"}
    THEN IF ~IsInteger(a) \/ ~IsInteger(e) THEN "cannot convert to BigInt"
         ELSE IF BigInt(a) # BigInt(e) THEN "value mismatch"
         ELSE ""
    ELSE LET an == Number(a)
             en == Number(e)
         IN  IF ~IsFinite(en) \/ ~IsFinite(an)
             THEN IF ~StrictEquals(en, an) THEN "value mismatch" ELSE ""
             ELSE IF /\ ExceedsTol(AbsDiff(an, en),
                                   AbsTol(operatorName, dataType))
                     /\ ExceedsUlps(ulpDistanceF32(an, en),
                                    UlpTol(operatorName))
             THEN "value mismatch"
             ELSE ""

\* The element loops with every data type on the Number path.
ElementErrorNumbersOnly(operatorName, dataType, e, a) ==
    LET an == Number(a)
        en == Number(e)
    IN  IF IsNaN(en) /\ IsNaN(an) THEN ""
        ELSE IF ~IsFinite(en) \/ ~IsFinite(an)
        THEN IF ~StrictEquals(en, an) THEN "value mismatch" ELSE ""
        ELSE IF /\ ExceedsTol(AbsDiff(an, en), AbsTol(operatorName, dataType))
                /\ ExceedsUlps(ulpDistanceF32(an, en), UlpTol(operatorName))
        THEN "value mismatch"
        ELSE ""

\* The element loops refusing a value that exceeds either tolerance.
ElementErrorEitherTolerance(operatorName, dataType, e, a) ==
    IF dataType \in {"int64", "uint64"}
    THEN IF ~IsInteger(a) \/ ~IsInteger(e) THEN "cannot convert to BigInt"
         ELSE IF BigInt(a) # BigInt(e) THEN "value mismatch"
         ELSE ""
    ELSE LET an == Number(a)
             en == Number(e)
         IN  IF IsNaN(en) /\ IsNaN(an) THEN ""
             ELSE IF ~IsFinite(en) \/ ~IsFinite(an)
             THEN IF ~StrictEquals(en, an) THEN "value mismatch" ELSE ""
             ELSE IF \/ ExceedsTol(AbsDiff(an, en),
                                   AbsTol(operatorName, dataType))
                     \/ ExceedsUlps(ulpDistanceF32(an, en),
                                    UlpTol(operatorName))
             THEN "value mismatch"
             ELSE ""

\* One turn of the element loops of assertOutputClose on expected element e
\* and actual element a: "" when the loop goes on, else what is thrown.
ElementError(operatorName, dataType, e, a) ==
    IF dataType \in {"int64", "uint64"}
    THEN IF ~IsInteger(a) \/ ~IsInteger(e) THEN "cannot convert to BigInt"
         ELSE IF BigInt(a) # BigInt(e) THEN "value mismatch"
         ELSE ""
    ELSE LET an == Number(a)
             en == Number(e)
         IN  IF IsNaN(en) /\ IsNaN(an) THEN ""
             ELSE IF ~IsFinite(en) \/ ~IsFinite(an)
             THEN IF ~StrictEquals(en, an) THEN "value mismatch" ELSE ""
             ELSE IF /\ ExceedsTol(AbsDiff(an, en),
                                   AbsTol(operatorName, dataType))
                     /\ ExceedsUlps(ulpDistanceF32(an, en),
                                    UlpTol(operatorName))
             THEN "value mismatch"
             ELSE ""

\* The element comparison of assertOutputClose: is element i a mismatch?
ElementMismatch(operatorName, dataType, e, a) ==
    ElementError(operatorName, dataType, e, a) # ""

\* assertOutputClose with the shapes compared before the element counts.
assertOutputCloseShapeFirst(operatorName, outputName, expected, actual) ==
    LET dataType == expected.descriptor.dataType
        expectedData == expected.data
        actualData == actual.data
        bad == { i \in 1..Len(expectedData) :
                   ElementMismatch(operatorName, dataType,
                                   expectedData[i], actualData[i]) }
    IN  IF expected.descriptor.shape # actual.descriptor.shape
        THEN Message("shape mismatch", outputName, -1)
        ELSE IF Len(expectedData) # Len(actualData)
        THEN Message("length mismatch", outputName, -1)
        ELSE IF bad # {}
        THEN LET i == CHOOSE i \in bad : \A j \in bad : i <= j IN
             Message(ElementError(operatorName, dataType,
                                  expectedData[i], actualData[i]),
                     outputName, i - 1)
        ELSE NoMessage

\* assertOutputClose: NoMessage when it returns, else the error it throws.
assertOutputClose(operatorName, outputName, expected, actual) ==
    LET dataType == expected.descriptor.dataType
        expectedData == expected.data
        actualData == actual.data
        bad == { i \in 1..Len(expectedData) :
                   ElementMismatch(operatorName, dataType,
                                   expectedData[i], actualData[i]) }
    IN  IF Len(expectedData) # Len(actualData)
        THEN Message("length mismatch", outputName, -1)
        ELSE IF expected.descriptor.shape # actual.descriptor.shape
        THEN Message("shape mismatch", outputName, -1)
        ELSE IF bad # {}
        THEN LET i == CHOOSE i \in bad : \A j \in bad : i <= j IN
             Message(ElementError(operatorName, dataType,
                                  expectedData[i], actualData[i]),
                     outputName, i - 1)
        ELSE NoMessage

-----------------------------------------------------------------------------
(* Values.                                                                  *)

\* The elements of a sequence.
Range(s) == { s[i] : i \in DOMAIN s }

\* JavaScript's undefined, for a property a message does not carry.
Absent == "absent"

\* An id that is the key of no pending entry (the worker made it up).
UnknownId == 0

Ids == 1..MaxRequests

\* A tensor as the worker returns it: { descriptor: {dataType, shape}, data }.
Tensor(dt, shape, data) ==
    [descriptor |-> [dataType |-> dt, shape |-> shape], data |-> data]

OutputNames == {"y"}

ActualTensors ==
    { Tensor("float32", <<2>>, Numbers(<<1, 2>>)),
      Tensor("float32", <<2>>, Numbers(<<1, 3>>)),
      Tensor("float32", <<1, 2>>, Numbers(<<1, 2>>)) }

\* The "outputs" objects a response may carry: output name -> tensor.
WorkerOutputs ==
    UNION { [S -> ActualTensors] : S \in SUBSET OutputNames }

EmptyOutputs == [n \in {} |-> Tensor("float32", <<>>, <<>>)]

ErrorKinds == {"ValidationError"}
ErrorMessages == {"boom"}

\* msg.error when there is one: an object with kind and message, or an
\* object with neither.
MsgErrors ==
    [kind : ErrorKinds, message : ErrorMessages]
    \cup { [kind |-> Absent, message |-> Absent] }

NoError == [kind |-> Absent, message |-> Absent]

\* The error the 'exit' handler builds: new Error(`runner exited (...)`), no kind.
ExitError == [kind |-> Absent, message |-> "runner exited"]

\* One line read from the worker's stdout.
\*   blank    : line.trim() is empty
\*   garbage  : JSON.parse throws
\*   null     : the JSON text null
\*   scalar   : a JSON number, string, boolean or array (no id property)
\*   object   : a JSON object; id, ok, outputs, error may each be missing
\* A missing property holds its neutral value, and a property the handler
\* never reads for that value of ok is left out (outputs is read only when ok
\* is truthy, error only when it is not).
SuccessBodies ==
    { [ok |-> "true", hasOutputs |-> TRUE, outputs |-> o,
       hasError |-> FALSE, error |-> NoError] : o \in WorkerOutputs }
    \cup
    { [ok |-> "true", hasOutputs |-> FALSE, outputs |-> EmptyOutputs,
       hasError |-> FALSE, error |-> NoError] }

FailureBodies ==
    { [ok |-> "false", hasOutputs |-> FALSE, outputs |-> EmptyOutputs,
       hasError |-> TRUE, error |-> e] : e \in MsgErrors }
    \cup
    { [ok |-> k, hasOutputs |-> FALSE, outputs |-> EmptyOutputs,
       hasError |-> FALSE, error |-> NoError] : k \in {"false", Absent} }

LineBodies == SuccessBodies \cup FailureBodies

\* The object lines whose id property is one of ids.
ObjectLinesWithId(ids) ==
    { [t |-> "object", hasId |-> TRUE, id |-> i, ok |-> b.ok,
       hasOutputs |-> b.hasOutputs, outputs |-> b.outputs,
       hasError |-> b.hasError, error |-> b.error] : i \in ids, b \in LineBodies }

\* The bodies of the lines that name no request the worker was sent: the
\* handler returns before it reads ok, outputs or error.
StrayBodies ==
    { b \in LineBodies : ~b.hasOutputs /\ ~b.hasError /\ b.ok # Absent }

ObjectLinesNoId ==
    { [t |-> "object", hasId |-> FALSE, id |-> UnknownId, ok |-> b.ok,
       hasOutputs |-> b.hasOutputs, outputs |-> b.outputs,
       hasError |-> b.hasError, error |-> b.error] : b \in StrayBodies }

ObjectLinesUnknownId ==
    { l \in ObjectLinesWithId({UnknownId}) :
        \E b \in StrayBodies : l.ok = b.ok /\ l.hasOutputs = b.hasOutputs
                               /\ l.hasError = b.hasError }

PlainLines == { [t |-> k] : k \in {"blank", "garbage", "null", "scalar"} }

\* The worker answers only with ids it has read from its stdin (a fresh
\* random UUID cannot be guessed), or with an id of its own making.
Lines(ids) ==
    PlainLines \cup ObjectLinesNoId \cup ObjectLinesUnknownId
    \cup ObjectLinesWithId(ids)

AllLines == Lines(Ids)

-----------------------------------------------------------------------------
(* Promises.                                                                *)

\* The promise of a request: state, the value it settled with, the number of
\* resolve()/reject() calls made on it, and what had happened when it was sent.
FreshHandle ==
    [state |-> "unused", outputs |-> EmptyOutputs, error |-> NoError,
     settles |-> 0, afterExit |-> FALSE, afterClose |-> FALSE]

\* resolve(v) / reject(e) on a promise: only the first call settles it.
Resolve(h, v) ==
    IF h.state = "pending"
    THEN [h EXCEPT !.state = "resolved", !.outputs = v, !.settles = @ + 1]
    ELSE [h EXCEPT !.settles = @ + 1]

Reject(h, e) ==
    IF h.state = "pending"
    THEN [h EXCEPT !.state = "rejected", !.error = e, !.settles = @ + 1]
    ELSE [h EXCEPT !.settles = @ + 1]

-----------------------------------------------------------------------------
(* RunnerClient.                                                            *)

\* The Node process is running its event loop.
NodeAlive == ~uncaught /\ exitCode = "none"

\* new RunnerClient(): spawn the worker, empty pending table.
ConstructClient ==
    /\ spawned' = spawned + 1
    /\ procState' = "running"
    /\ killed' = FALSE
    /\ pending' = {}
    /\ UNCHANGED <<stdinEnds, termSignals, closeCalls, handle, nextId,
                   delivered, uncaught>>

\* msg.id of a parsed object line.
MsgId(l) == IF l.hasId THEN l.id ELSE UnknownId

\* waiter.resolve(msg.outputs ?? {})
MsgOutputs(l) == IF l.hasOutputs THEN l.outputs ELSE EmptyOutputs

\* error.message = msg.error?.message ?? 'runner error'
\* error.kind    = msg.error?.kind ?? 'RuntimeExecutionError'
MsgError(l) ==
    [kind |-> IF l.hasError /\ l.error.kind # Absent
              THEN l.error.kind ELSE "RuntimeExecutionError",
     message |-> IF l.hasError /\ l.error.message # Absent
                 THEN l.error.message ELSE "runner error"]

\* Mutant: responses matched in arrival order, the oldest waiter first.
LineWaiterOldest(l) ==
    IF l.t = "object" /\ pending # {}
    THEN {CHOOSE x \in pending : \A y \in pending : x <= y}
    ELSE {}

\* The waiter the 'line' handler looks up: this.pending.get(msg.id).
LineWaiter(l) == IF MsgId(l) \in pending THEN {MsgId(l)} ELSE {}

\* Mutant: the entry is left in the table.
LineDeleteNone(w) == {}

\* Mutant: this.pending.clear() in place of this.pending.delete(msg.id).
LineDeleteAll(w) == pending

\* The entries the 'line' handler removes once it has found waiter w.
LineDelete(w) == {w}

\* rl.on('line'): the handler's effect on the pending table and the promises.
LineEffect(l) ==
    IF l.t \in {"blank", "garbage"}
    THEN UNCHANGED <<pending, handle, uncaught>>
    ELSE IF l.t = "null"
    THEN \* msg is null: reading msg.id throws a TypeError out of the handler
         /\ uncaught' = TRUE
         /\ UNCHANGED <<pending, handle>>
    ELSE IF l.t = "scalar" \/ LineWaiter(l) = {}
    THEN UNCHANGED <<pending, handle, uncaught>>
    ELSE LET w == CHOOSE x \in LineWaiter(l) : TRUE IN
         /\ pending' = pending \ LineDelete(w)
         /\ handle' = [handle EXCEPT
                ![w] = IF l.ok = "true"
                       THEN Resolve(@, MsgOutputs(l))
                       ELSE Reject(@, MsgError(l))]
         /\ UNCHANGED uncaught

\* A line arrives from the worker's stdout (also after the 'exit' event: the
\* stdout pipe may still hold what the worker wrote before it exited).
RlLine(l) ==
    /\ NodeAlive
    /\ procState # "none"
    /\ LineEffect(l)
    /\ UNCHANGED <<spawned, procState, killed, stdinEnds, termSignals,
                   closeCalls, nextId, delivered>>
    /\ UNCHANGED mainVars
    /\ UNCHANGED <<callVars, builderVars, contextVars>>

\* Mutant: the handler rejects the waiters and forgets this.pending.clear().
ExitPendingKept(p) == p

\* proc.on('exit'): what is left in the pending table after the handler.
ExitPending(p) == {}

\* proc.on('exit'): the promises after the handler rejected every waiter.
ExitHandles(p, h) ==
    [i \in DOMAIN h |-> IF i \in p THEN Reject(h[i], ExitError) ELSE h[i]]

\* The worker exits (on its own, or after SIGTERM) and the 'exit' handler runs.
ProcExit ==
    /\ NodeAlive
    /\ procState = "running"
    /\ procState' = "exited"
    /\ handle' = ExitHandles(pending, handle)
    /\ pending' = ExitPending(pending)
    /\ UNCHANGED <<spawned, killed, stdinEnds, termSignals, closeCalls,
                   nextId, delivered, uncaught>>
    /\ UNCHANGED mainVars
    /\ UNCHANGED <<callVars, builderVars, contextVars>>

\* executeGraph(): a fresh id, a pending entry, one line written to stdin.
\* The line reaches the worker only while it runs and stdin is open.
ExecuteGraph ==
    LET id == nextId + 1 IN
    /\ nextId' = id
    /\ pending' = pending \cup {id}
    /\ handle' = [handle EXCEPT
           ![id] = [FreshHandle EXCEPT !.state = "pending",
                                       !.afterExit = (procState = "exited"),
                                       !.afterClose = (closeCalls > 0)]]
    /\ delivered' = IF procState = "running" /\ stdinEnds = 0
                    THEN delivered \cup {id} ELSE delivered
    /\ UNCHANGED <<spawned, procState, killed, stdinEnds, termSignals,
                   closeCalls, uncaught>>

\* Mutant: close() without its proc.killed test.
CloseUnguarded ==
    /\ closeCalls' = closeCalls + 1
    /\ stdinEnds' = stdinEnds + 1
    /\ IF procState = "running"
       THEN termSignals' = termSignals + 1 /\ killed' = TRUE
       ELSE UNCHANGED <<termSignals, killed>>
    /\ UNCHANGED <<spawned, procState, pending, handle, nextId, delivered,
                   uncaught>>

\* The end-of-input marks written to the worker's stdin: the first
\* stdin.end() writes one, a later end() finds the stream ended and writes
\* nothing.
EndOfInputSent == IF stdinEnds > 0 THEN 1 ELSE 0

\* close(): nothing when proc.killed; else stdin.end() and kill('SIGTERM').
\* kill() delivers the signal, and sets proc.killed, only to a live process.
Close ==
    /\ closeCalls' = closeCalls + 1
    /\ IF killed
       THEN UNCHANGED <<stdinEnds, termSignals, killed>>
       ELSE /\ stdinEnds' = stdinEnds + 1
            /\ IF procState = "running"
               THEN termSignals' = termSignals + 1 /\ killed' = TRUE
               ELSE UNCHANGED <<termSignals, killed>>
    /\ UNCHANGED <<spawned, procState, pending, handle, nextId, delivered,
                   uncaught>>

-----------------------------------------------------------------------------
(* Test fixtures and options of a conformance run.                          *)

\* const SUPPORTED_DTYPES
SUPPORTED_DTYPES ==
    {"float32", "float16", "int8", "uint8", "int32", "uint32", "int64",
     "uint64", "int4", "uint4"}

\* const UNIMPLEMENTED_OPS
UNIMPLEMENTED_OPS ==
    {"cumulative_sum", "is_nan", "l2_pool2d", "reverse", "round_even",
     "gru", "gru_cell", "lstm", "lstm_cell"}

\* The operator names of the modelled fixtures, as WPT spells them.
OperatorNames ==
    {"add", "gruCell", "cumulativeSum", "reduceSum", "isNaN", "l2Pool2d"}

\* The names normalizeOpName can return for them, and 'is_nan'.
NormalizedNames ==
    {"add", "cumulative_sum", "gru_cell", "is_na_n", "is_nan", "l2_pool2d",
     "reduce_sum", "unknown"}

\* A name as its sequence of characters.
Spelling(name) ==
    CASE name = "add" -> <<"a", "d", "d">>
      [] name = "gruCell" -> <<"g", "r", "u", "C", "e", "l", "l">>
      [] name = "cumulativeSum" -> <<"c", "u", "m", "u", "l", "a", "t", "i", "v", "e", "S", "u", "m">>
      [] name = "reduceSum" -> <<"r", "e", "d", "u", "c", "e", "S", "u", "m">>
      [] name = "isNaN" -> <<"i", "s", "N", "a", "N">>
      [] name = "l2Pool2d" -> <<"l", "2", "P", "o", "o", "l", "2", "d">>
      [] name = "cumulative_sum" -> <<"c", "u", "m", "u", "l", "a", "t", "i", "v", "e", "_", "s", "u", "m">>
      [] name = "gru_cell" -> <<"g", "r", "u", "_", "c", "e", "l", "l">>
      [] name = "is_na_n" -> <<"i", "s", "_", "n", "a", "_", "n">>
      [] name = "is_nan" -> <<"i", "s", "_", "n", "a", "n">>
      [] name = "l2_pool2d" -> <<"l", "2", "_", "p", "o", "o", "l", "2", "d">>
      [] name = "reduce_sum" -> <<"r", "e", "d", "u", "c", "e", "_", "s", "u", "m">>
      [] name = "unknown" -> <<"u", "n", "k", "n", "o", "w", "n">>

UpperCase ==
    <<"A", "B", "C", "D", "E", "F", "G", "H", "I", "J", "K", "L", "M", "N", "O", "P", "Q", "R", "S", "T", "U", "V", "W", "X", "Y", "Z">>
LowerCase ==
    <<"a", "b", "c", "d", "e", "f", "g", "h", "i", "j", "k", "l", "m", "n", "o", "p", "q", "r", "s", "t", "u", "v", "w", "x", "y", "z">>

IsUpper(c) == \E i \in DOMAIN UpperCase : UpperCase[i] = c

\* [a-z0-9]
IsLowerOrDigit(c) ==
    \/ \E i \in DOMAIN LowerCase : LowerCase[i] = c
    \/ c \in {"0", "1", "2", "3", "4", "5", "6", "7", "8", "9"}

\* One character of String.prototype.toLowerCase().
ToLower(c) ==
    IF IsUpper(c)
    THEN LowerCase[CHOOSE i \in DOMAIN UpperCase : UpperCase[i] = c]
    ELSE c

\* replace(/([a-z0-9])([A-Z])/g, '$1_$2') from position i on: an underscore
\* goes before each capital that follows a lower-case letter or a digit (a
\* match ends with its capital, so no two matches overlap).
RECURSIVE Underscored(_, _)
Underscored(cs, i) ==
    IF i > Len(cs) THEN <<>>
    ELSE (IF i > 1 /\ IsLowerOrDigit(cs[i - 1]) /\ IsUpper(cs[i])
          THEN <<"_", cs[i]>> ELSE <<cs[i]>>) \o Underscored(cs, i + 1)

\* normalizeOpName on a sequence of characters.
SnakeCase(cs) ==
    LET u == Underscored(cs, 1) IN [i \in DOMAIN u |-> ToLower(u[i])]

\* normalizeOpName of run-conformance.js:
\* opName.replace(/([a-z0-9])([A-Z])/g, '$1_$2').toLowerCase()
normalizeOpName(opName) ==
    LET cs == SnakeCase(Spelling(opName)) IN
    CHOOSE n \in NormalizedNames : Spelling(n) = cs

\* An entry of Object.entries(): a property name and its tensor.
Entry(name, tensor) == [name |-> name, tensor |-> tensor]

\* test.graph: inputs and expectedOutputs in property order, operators.
Graph(dt, opName) ==
    [inputs |-> << Entry("a", Tensor(dt, <<2>>, Numbers(<<1, 1>>))),
                   Entry("b", Tensor("float32", <<2>>, Numbers(<<0, 1>>))) >>,
     operators |-> << [name |-> opName] >>,
     expectedOutputs |-> << Entry("y", Tensor("float32", <<2>>, Numbers(<<1, 2>>))) >>]

NoGraph == [inputs |-> <<>>, operators |-> <<>>, expectedOutputs |-> <<>>]

\* An element of an extracted tests array. isObject is false for a value
\* that is not an object (null, a number); hasName and hasGraph say whether
\* test.name and test.graph are there.
TestNull ==
    [isObject |-> FALSE, hasName |-> FALSE, name |-> "", hasGraph |-> FALSE,
     graph |-> NoGraph, graphThrows |-> FALSE]

NamedTest(name, graph) ==
    [isObject |-> TRUE, hasName |-> TRUE, name |-> name, hasGraph |-> TRUE,
     graph |-> graph, graphThrows |-> FALSE]

TestAdd == NamedTest("add float32", Graph("float32", "add"))
TestFloat64 == NamedTest("add float64", Graph("float64", "add"))
TestGruCell == NamedTest("gruCell float32", Graph("float32", "gruCell"))

\* A test whose graph property is a getter that throws.
TestThrowing == [NamedTest("throwing", NoGraph) EXCEPT !.graphThrows = TRUE]

TestCatalogue == {TestNull, TestAdd, TestFloat64, TestGruCell, TestThrowing}

MaxTests == 2
MaxFiles == 2
MaxVariants == 2
MaxTotalTests == 3

TestSeqs == UNION { [1..n -> TestCatalogue] : n \in 0..MaxTests }

\* What reading and extracting one fixture file gives: an error, or an array.
Fixtures ==
    { [ok |-> FALSE, tests |-> <<>>] }
    \cup { [ok |-> TRUE, tests |-> t] : t \in TestSeqs }

\* opts.limitTests: Number.POSITIVE_INFINITY by default, or --limit-tests N.
Limits ==
    { [finite |-> FALSE, n |-> 0] }
    \cup { [finite |-> TRUE, n |-> k] : k \in 1..(MaxTests - 1) }

AllVariants == <<"cpu", "gpu", "npu">>

VariantLists == { SubSeq(AllVariants, 1, n) : n \in 0..MaxVariants }

Options ==
    [stopOnFail : BOOLEAN, skipUnimplemented : BOOLEAN,
     variants : VariantLists, limitTests : Limits, exitZero : BOOLEAN]

\* The fixture directory: is <wptDir>/webnn there, does readdir() throw, and
\* how many files are left after the filters and slice(0, limitFiles).
FileSystems ==
    { [wptExists |-> FALSE, listThrows |-> FALSE, nFiles |-> 0],
      [wptExists |-> TRUE, listThrows |-> TRUE, nFiles |-> 0] }
    \cup { [wptExists |-> TRUE, listThrows |-> FALSE, nFiles |-> n] :
             n \in 0..MaxFiles }

-----------------------------------------------------------------------------
(* run-conformance.js: classification and verification of one test.         *)

\* collectUnimplementedOps(test): is some operator of the graph among
\* UNIMPLEMENTED_OPS once its name is normalized?
collectUnimplementedOps(test) ==
    { normalizeOpName(test.graph.operators[i].name) :
        i \in 1..Len(test.graph.operators) } \cap UNIMPLEMENTED_OPS

\* shouldSkipTest(test, opts): "" for null, else the skip reason.
shouldSkipTest(test, o) ==
    LET tensors == test.graph.inputs \o test.graph.expectedOutputs
        unsupported == { i \in 1..Len(tensors) :
            tensors[i].tensor.descriptor.dataType \notin SUPPORTED_DTYPES }
    IN  IF unsupported # {}
        THEN "unsupported dataType"
        ELSE IF o.skipUnimplemented /\ collectUnimplementedOps(test) # {}
        THEN "unimplemented op(s)"
        ELSE ""

\* The operator name runSingleTest verifies with: the op of the last node of
\* buildGraphJson(graph), 'unknown' for a graph without operators.
LastOp(graph) ==
    IF Len(graph.operators) = 0 THEN "unknown"
    ELSE graph.operators[Len(graph.operators)].name

\* The loop of runSingleTest over Object.entries(graph.expectedOutputs):
\* the first error thrown, NoMessage when every output is accepted.
RECURSIVE VerifyOutputs(_, _, _)
VerifyOutputs(entries, outputs, operatorName) ==
    IF entries = <<>> THEN NoMessage
    ELSE LET name == Head(entries).name IN
         IF name \notin DOMAIN outputs
         THEN Message("missing output", name, -1)
         ELSE LET err == assertOutputClose(operatorName, name,
                                           Head(entries).tensor, outputs[name])
              IN  IF err # NoMessage THEN err
                  ELSE VerifyOutputs(Tail(entries), outputs, operatorName)

\* Mutant: runSingleTest without its loop over the expected outputs.
TestErrorNoVerification(test, h) ==
    IF h.state = "rejected"
    THEN Message(h.error.message, "", -1)
    ELSE NoMessage

\* What awaiting runSingleTest gives once the request's promise h is settled:
\* NoMessage for { status: 'pass' }, else the message of the error thrown.
TestError(test, h) ==
    IF h.state = "rejected"
    THEN Message(h.error.message, "", -1)
    ELSE VerifyOutputs(test.graph.expectedOutputs, h.outputs,
                       normalizeOpName(LastOp(test.graph)))

\* test?.name ?? `[unnamed-${testIndex}]`, testIndex counted from 0.
TestName(test, idx) ==
    IF test.isObject /\ test.hasName
    THEN [named |-> TRUE, text |-> test.name, index |-> 0]
    ELSE [named |-> FALSE, text |-> "unnamed", index |-> idx - 1]

\* tests.slice(0, opts.limitTests)
Slice(ts, limit) ==
    IF limit.finite /\ limit.n < Len(ts) THEN SubSeq(ts, 1, limit.n) ELSE ts

-----------------------------------------------------------------------------
(* run-conformance.js: main().                                              *)

\* fileReport as pushed to report.files at the top of the file loop.
NewFileReport(i) ==
    [fileName |-> i, selectedTests |-> 0,
     summary |-> [passed |-> 0, failed |-> 0, skipped |-> 0],
     cases |-> <<>>, fileError |-> ""]

\* The three case records main() pushes to fileReport.cases.
PassCase(testName, variant) ==
    [testName |-> testName, variant |-> variant, status |-> "pass"]

SkipCase(testName, variant, reason) ==
    [testName |-> testName, variant |-> variant, status |-> "skip",
     reason |-> reason]

FailCase(testName, variant, error) ==
    [testName |-> testName, variant |-> variant, status |-> "fail",
     error |-> error]

\* The entries of failures: a failed case, or a file that could not be parsed.
CaseFailure(i, variant, testName, error) ==
    [kind |-> "CASE", file |-> i, variant |-> variant, testName |-> testName,
     error |-> error]

FileFailure(i) == [kind |-> "FILE_PARSE", file |-> i]

\* The entry the catch block of main() pushes: `FATAL :: ${err.message}`.
FatalFailure == [kind |-> "FATAL"]

\* The variables main() changes between two awaits, as one record.
Locals ==
    [pc |-> pc, fileIdx |-> fileIdx, variantIdx |-> variantIdx,
     testIdx |-> testIdx, skipped |-> skipped, halted |-> halted,
     reportFiles |-> reportFiles]

\* A case is pushed to the current file's report and counted there.
RecordCase(files, i, case) ==
    [files EXCEPT
        ![i].cases = Append(@, case),
        ![i].summary.passed = IF case.status = "pass" THEN @ + 1 ELSE @,
        ![i].summary.failed = IF case.status = "fail" THEN @ + 1 ELSE @,
        ![i].summary.skipped = IF case.status = "skip" THEN @ + 1 ELSE @]

\* Mutant: the failure breaks out of the test loop only; the variant loop and
\* the file loop go on.
AfterCaseInnerBreak(m, status) ==
    IF status = "fail" /\ opts.stopOnFail
    THEN [m EXCEPT !.pc = "test", !.halted = TRUE,
                   !.variantIdx = @ + 1, !.testIdx = 1]
    ELSE [m EXCEPT !.pc = "test", !.testIdx = @ + 1]

\* Mutant: a failure halts the run whatever opts.stopOnFail says.
AfterCaseAlwaysStop(m, status) ==
    IF status = "fail"
    THEN [m EXCEPT !.pc = "close", !.halted = TRUE]
    ELSE [m EXCEPT !.pc = "test", !.testIdx = @ + 1]

\* Where main() goes once a case is recorded: on to the next test, or, for a
\* failure under --stop-on-fail, out of the test, variant and file loops.
AfterCase(m, status) ==
    IF status = "fail" /\ opts.stopOnFail
    THEN [m EXCEPT !.pc = "close", !.halted = TRUE]
    ELSE [m EXCEPT !.pc = "test", !.testIdx = @ + 1]

\* Mutant: the file error is recorded and the file loop is left.
AfterFileErrorStop(m) == [m EXCEPT !.pc = "close"]

\* Where main() goes after a file that could not be read or extracted:
\* `continue`, the next file.
AfterFileError(m) == [m EXCEPT !.pc = "file", !.fileIdx = @ + 1]

\* The file, variant and test loops of main() from position m, with ts the
\* tests of the current file, up to the next await: the read of the next
\* file (pc "read"), a request for tests[testIdx] (pc "send"), or the end of
\* the file loop (pc "close"), or an exception that no try block of the
\* loops catches (pc "fatal"). Invalid and skipped tests are recorded on the
\* way: they await nothing outside main().
RECURSIVE RunLoop(_, _)
RunLoop(m, ts) ==
    IF m.pc = "file"
    THEN IF m.fileIdx > fs.nFiles
         THEN [m EXCEPT !.pc = "close"]
         ELSE [m EXCEPT !.pc = "read",
                        !.reportFiles = Append(@, NewFileReport(m.fileIdx))]
    ELSE IF m.pc = "test"
    THEN IF m.variantIdx > Len(opts.variants)
         THEN RunLoop([m EXCEPT !.pc = "file", !.fileIdx = @ + 1], ts)
         ELSE IF m.testIdx > Len(ts)
         THEN RunLoop([m EXCEPT !.variantIdx = @ + 1, !.testIdx = 1], ts)
         ELSE LET test == ts[m.testIdx]
                  testName == TestName(test, m.testIdx)
                  variant == opts.variants[m.variantIdx]
                  reason == IF ~test.isObject \/ ~test.hasGraph
                            THEN "invalid extracted test case"
                            ELSE shouldSkipTest(test, opts)
              IN  IF test.isObject /\ test.graphThrows
                  THEN [m EXCEPT !.pc = "fatal"]
                  ELSE IF reason # ""
                  THEN RunLoop(
                         [m EXCEPT
                            !.skipped = @ + 1,
                            !.reportFiles = RecordCase(@, m.fileIdx,
                                SkipCase(testName, variant, reason)),
                            !.testIdx = @ + 1], ts)
                  ELSE [m EXCEPT !.pc = "send"]
    ELSE m

\* Number((x * 100).toFixed(1)) of a ratio p/t, in tenths of a percent.
PassRateTenths(p, t) ==
    IF t > 0 THEN (2000 * p + t) \div (2 * t) ELSE 0

\* report.summary as main() fills it in after the finally block.
FinalSummary(p, f, s) ==
    [passed |-> p, failed |-> f, skipped |-> s, total |-> p + f + s,
     passRatePct |-> PassRateTenths(p, p + f + s),
     passRateExcludingSkipsPct |-> PassRateTenths(p, p + f)]

\* main() runs from position m to its next await, with p and f the values of
\* passed and failed: it awaits the next file's text, or sends a request and
\* awaits runSingleTest, or leaves the loops, calls runner.close() in the
\* finally block, fills in the summary and awaits the report files. It
\* leaves the loops through the catch block for an exception no inner try
\* block catches: fatalError is set, failed is incremented and a failure is
\* pushed; fl is the value of failures.
Continue(m, ts, p, f, fl) ==
    LET r == RunLoop(m, ts)
        fatal == r.pc = "fatal"
        ff == IF fatal THEN f + 1 ELSE f
    IN
    /\ failed' = ff
    /\ failures' = IF fatal THEN Append(fl, FatalFailure) ELSE fl
    /\ fatalError' = (fatalError \/ fatal)
    /\ fileIdx' = r.fileIdx
    /\ variantIdx' = r.variantIdx
    /\ testIdx' = r.testIdx
    /\ skipped' = r.skipped
    /\ halted' = r.halted
    /\ reportFiles' = r.reportFiles
    /\ IF r.pc = "send"
       THEN /\ nextId < MaxRunRequests
            /\ ExecuteGraph
            /\ curReq' = nextId + 1
            /\ pc' = "await"
            /\ UNCHANGED summary
       ELSE IF r.pc \in {"close", "fatal"}
       THEN /\ Close
            /\ summary' = FinalSummary(p, ff, r.skipped)
            /\ pc' = "report"
            /\ UNCHANGED curReq
       ELSE /\ pc' = r.pc
            /\ UNCHANGED <<bridgeVars, curReq, summary>>

\* main() up to the listing: process.exit(2) when <wptDir>/webnn is missing.
MainStart ==
    /\ NodeAlive
    /\ pc = "start"
    /\ IF ~fs.wptExists
       THEN pc' = "exited" /\ exitCode' = "2"
       ELSE pc' = "list" /\ UNCHANGED exitCode
    /\ UNCHANGED <<opts, fs, fixtures, tests, fileIdx, variantIdx, testIdx,
                   curReq, passed, failed, skipped, failures, reportFiles,
                   summary, halted, fatalError>>
    /\ UNCHANGED bridgeVars
    /\ UNCHANGED <<callVars, builderVars, contextVars>>

\* The listing is back. A throw leaves main() and main().catch exits with 1;
\* no file exits with 2; else the client is made, the file loop is entered
\* and the first file is read.
MainList ==
    /\ NodeAlive
    /\ pc = "list"
    /\ IF fs.listThrows \/ fs.nFiles = 0
       THEN /\ pc' = "exited"
            /\ exitCode' = IF fs.listThrows THEN "1" ELSE "2"
            /\ UNCHANGED <<fileIdx, reportFiles, bridgeVars>>
       ELSE /\ ConstructClient
            /\ reportFiles' = Append(reportFiles, NewFileReport(1))
            /\ fileIdx' = 1
            /\ pc' = "read"
            /\ UNCHANGED exitCode
    /\ UNCHANGED <<opts, fs, fixtures, tests, variantIdx, testIdx, curReq,
                   passed, failed, skipped, failures, summary, halted,
                   fatalError>>
    /\ UNCHANGED <<callVars, builderVars, contextVars>>

\* readFile and extractTestsFromSource are done: a file error is recorded
\* and the loop goes to the next file, or the tests of the file are run.
MainReadFile(fx) ==
    /\ NodeAlive
    /\ pc = "read"
    /\ fixtures' = Append(fixtures, fx)
    /\ IF ~fx.ok
       THEN /\ UNCHANGED tests
            /\ Continue(
                 AfterFileError(
                   [Locals EXCEPT
                      !.reportFiles =
                         [@ EXCEPT ![fileIdx].fileError = "extraction error",
                                   ![fileIdx].summary.failed = @ + 1]]),
                 tests, passed, failed + 1,
                 Append(failures, FileFailure(fileIdx)))
       ELSE /\ tests' = Slice(fx.tests, opts.limitTests)
            /\ Continue(
                 [Locals EXCEPT
                    !.pc = "test", !.variantIdx = 1, !.testIdx = 1,
                    !.reportFiles =
                       [@ EXCEPT ![fileIdx].selectedTests = Len(tests')]],
                 tests', passed, failed, failures)
    /\ UNCHANGED <<opts, fs, passed, exitCode>>
    /\ UNCHANGED <<callVars, builderVars, contextVars>>

\* Mutant: main() goes on without waiting for the promise to settle.
SettledNoWait(h) == TRUE

\* await: main() resumes once the promise of its request is settled.
Settled(h) == h.state \in {"resolved", "rejected"}

\* The awaited promise is settled: runSingleTest returns pass or throws, the
\* case is recorded, and main() runs on to its next await.
MainAwait ==
    /\ NodeAlive
    /\ pc = "await"
    /\ Settled(handle[curReq])
    /\ \E err \in {TestError(tests[testIdx], handle[curReq])} :
       LET test == tests[testIdx]
           testName == TestName(test, testIdx)
           variant == opts.variants[variantIdx]
           status == IF err = NoMessage THEN "pass" ELSE "fail"
           case == IF status = "pass" THEN PassCase(testName, variant)
                   ELSE FailCase(testName, variant, err)
           p == IF status = "pass" THEN passed + 1 ELSE passed
           f == IF status = "fail" THEN failed + 1 ELSE failed
           fl == IF status = "fail"
                 THEN Append(failures,
                             CaseFailure(fileIdx, variant, testName, err))
                 ELSE failures
       IN  /\ passed' = p
           /\ \E m \in {AfterCase(
                           [Locals EXCEPT
                              !.reportFiles = RecordCase(@, fileIdx, case)],
                           status)} :
                Continue(m, tests, p, f, fl)
    /\ UNCHANGED <<opts, fs, fixtures, tests, exitCode>>
    /\ UNCHANGED <<callVars, builderVars, contextVars>>

\* The report files are written (a write that throws leaves main(), and
\* main().catch exits with 1) and the process exits.
MainExit(writeThrows) ==
    /\ NodeAlive
    /\ pc = "report"
    /\ exitCode' = IF writeThrows THEN "1"
                   ELSE IF (failed > 0 \/ fatalError) /\ ~opts.exitZero
                   THEN "1" ELSE "0"
    /\ pc' = "exited"
    /\ UNCHANGED <<opts, fs, fixtures, tests, fileIdx, variantIdx, testIdx,
                   curReq, passed, failed, skipped, failures, reportFiles,
                   summary, halted, fatalError>>
    /\ UNCHANGED bridgeVars
    /\ UNCHANGED <<callVars, builderVars, contextVars>>

\* No function call is under study.
NoCall == [fn |-> "none"]

NotCalled == [done |-> FALSE]

CallIdle == call = NoCall /\ result = NotCalled

\* No MLTensor has been created, readTensor() has not been called, and no
\* payload is on record.
NoTensor == [data |-> <<>>, pending |-> 0]

NoRead == [state |-> "none", awaited |-> 0, value |-> <<>>]

ContextIdle == outTensor = NoTensor /\ reading = NoRead /\ payloads = <<>>

\* main() has not been called: the state of the variables of main().
MainIdle ==
    /\ pc = "start"
    /\ fixtures = <<>>
    /\ tests = <<>>
    /\ fileIdx = 0
    /\ variantIdx = 0
    /\ testIdx = 0
    /\ curReq = 0
    /\ passed = 0
    /\ failed = 0
    /\ skipped = 0
    /\ failures = <<>>
    /\ reportFiles = <<>>
    /\ summary = [passed |-> 0, failed |-> 0, skipped |-> 0]
    /\ halted = FALSE
    /\ fatalError = FALSE
    /\ exitCode = "none"

-----------------------------------------------------------------------------
(* GraphDocuments: buildGraphJson of build-graph-json.js and the            *)
(* MLGraphBuilder of the shim.                                              *)
(*                                                                          *)
(* A JavaScript value of an operator argument or option is the record of    *)
(* its kind t and its content v; an object is the sequence of its           *)
(* properties in property order.                                            *)

MaxNodes == 2
MaxConstants == 1

Val(t, v) == [t |-> t, v |-> v]

Str(s) == Val("string", s)

Num64(n) == Val("bigint", n)

Float(n) == Val("number", n)

List(s) == Val("list", s)

Object(properties) == Val("object", properties)

Null == Val("null", 0)

Undefined == Val("undefined", 0)

\* One property of an object.
Property(key, value) == [key |-> key, value |-> value]

\* obj[key] = value
Put(obj, key, value) ==
    IF \E i \in DOMAIN obj : obj[i].key = key
    THEN [i \in DOMAIN obj |->
            IF obj[i].key = key THEN Property(key, value) ELSE obj[i]]
    ELSE Append(obj, Property(key, value))

\* Object.assign(target, source)
RECURSIVE Assign(_, _)
Assign(target, source) ==
    IF source = <<>> THEN target
    ELSE Assign(Put(target, Head(source).key, Head(source).value),
                Tail(source))

\* Object.entries(value) of an object or an array.
ObjectEntries(value) ==
    IF value.t = "list"
    THEN [i \in DOMAIN value.v |-> Property(ToString(i - 1), value.v[i])]
    ELSE value.v

\* `op_${index}`
OpIdFromOne(index) == "op_" \o ToString(index + 1)

OpId(index) == "op_" \o ToString(index)

\* build-graph-json.js: normalizeValue
RECURSIVE normalizeValue(_)
normalizeValue(v) ==
    IF v.t = "bigint" THEN Str(ToString(v.v))
    ELSE IF v.t = "list"
    THEN List([i \in DOMAIN v.v |-> normalizeValue(v.v[i])])
    ELSE IF v.t = "object"
    THEN Object([i \in DOMAIN v.v |->
                   Property(v.v[i].key, normalizeValue(v.v[i].value))])
    ELSE v

\* build-graph-json.js: flattenInputReferences
flattenInputReferences(argumentValue) ==
    IF argumentValue.t = "string" THEN <<argumentValue.v>>
    ELSE IF /\ argumentValue.t = "list"
            /\ \A i \in DOMAIN argumentValue.v : argumentValue.v[i].t = "string"
    THEN [i \in DOMAIN argumentValue.v |-> argumentValue.v[i].v]
    ELSE <<>>

\* build-graph-json.js: normalizeOptions, from the entries still to visit.
RECURSIVE NormalizeEntries(_, _)
NormalizeEntries(entries, out) ==
    IF entries = <<>> THEN out
    ELSE LET e == Head(entries) IN
         IF e.value.t \in {"string", "number", "boolean", "list", "null", "object"}
         THEN NormalizeEntries(Tail(entries),
                               Put(out, e.key, normalizeValue(e.value)))
         ELSE NormalizeEntries(Tail(entries), out)

normalizeOptions(optionsObj) == NormalizeEntries(ObjectEntries(optionsObj), <<>>)

\* op.arguments ?? [], op.outputs
Arguments(op) == IF "arguments" \in DOMAIN op THEN op.arguments ELSE <<>>

Outputs(op) == IF "outputs" \in DOMAIN op THEN op.outputs ELSE Undefined

\* The entries of all the arguments of an operator, in order.
RECURSIVE ArgumentEntries(_)
ArgumentEntries(arguments) ==
    IF arguments = <<>> THEN <<>>
    ELSE ObjectEntries(Head(arguments)) \o ArgumentEntries(Tail(arguments))

\* A node of a GraphDocument.
Node(id, op, inputs, options, outputs) ==
    [id |-> id, op |-> op, inputs |-> inputs, options |-> options,
     outputs |-> outputs]

\* buildGraphJson: the loops over the arguments of one operator.
RECURSIVE NormalizerNode(_, _)
NormalizerNode(entries, node) ==
    IF entries = <<>> THEN node
    ELSE LET e == Head(entries)
             refs == flattenInputReferences(e.value)
         IN  IF e.key = "options" /\ e.value.t \in {"object", "list"}
             THEN NormalizerNode(Tail(entries),
                    [node EXCEPT !.options =
                       Assign(@, normalizeOptions(e.value))])
             ELSE IF Len(refs) > 0
             THEN NormalizerNode(Tail(entries),
                    [node EXCEPT !.inputs = @ \o refs])
             ELSE NormalizerNode(Tail(entries),
                    [node EXCEPT !.options =
                       Put(@, e.key, normalizeValue(e.value))])

\* A GraphDocument.
GraphDocument(name, inputs, nodes, outputs) ==
    [format |-> "webnn-graph-json", version |-> 2, name |-> name,
     quantized |-> FALSE, inputs |-> inputs, consts |-> <<>>,
     nodes |-> nodes, outputs |-> outputs]

\* buildGraphJson(graphResources); its normalizeOpName returns the name.
buildGraphJson(graphResources) ==
    GraphDocument("wpt_graph",
        [i \in DOMAIN graphResources.inputs |->
           Property(graphResources.inputs[i].name,
                    graphResources.inputs[i].tensor.descriptor)],
        [i \in DOMAIN graphResources.operators |->
           LET op == graphResources.operators[i] IN
           NormalizerNode(ArgumentEntries(Arguments(op)),
               Node(OpId(i - 1), op.name, <<>>, <<>>,
                    IF Outputs(op).t = "list" THEN Outputs(op).v
                    ELSE <<Outputs(op)>>))],
        [i \in DOMAIN graphResources.expectedOutputs |->
           Property(graphResources.expectedOutputs[i].name,
                    graphResources.expectedOutputs[i].name)])

(* MLGraphBuilder.                                                          *)

\* new MLOperand(name, descriptor)
MLOperand(name, descriptor) ==
    [name |-> name, dataType |-> descriptor.dataType, shape |-> descriptor.shape]

Descriptor(dataType, shape) == [dataType |-> dataType, shape |-> shape]

\* An MLOperand as an argument of a builder method.
Operand(operand) == Val("operand", operand)

\* arg.every((x) => x instanceof MLOperand)
IsOperandList(arg) ==
    arg.t = "list" /\ \A i \in DOMAIN arg.v : arg.v[i].t = "operand"

\* _op: the first loop, over args: the input references and the options.
RECURSIVE ScanArgs(_, _)
ScanArgs(args, found) ==
    IF args = <<>> THEN found
    ELSE LET arg == Head(args) IN
         IF arg.t = "operand"
         THEN ScanArgs(Tail(args),
                [found EXCEPT !.inputRefs = Append(@, Str(arg.v.name))])
         ELSE IF IsOperandList(arg)
         THEN ScanArgs(Tail(args),
                [found EXCEPT !.inputRefs =
                   Append(@, List([i \in DOMAIN arg.v |-> Str(arg.v[i].v.name)]))])
         ELSE IF arg.t \in {"object", "list"}
         THEN ScanArgs(Tail(args), [found EXCEPT !.options = arg])
         ELSE ScanArgs(Tail(args), found)

\* _op: opArgs, from inputRefs and options.
OpArgs(found) ==
    [index \in DOMAIN found.inputRefs |->
       LET ref == found.inputRefs[index] IN
       IF ref.t = "list" THEN Object(<<Property("inputs", ref)>>)
       ELSE Object(<<Property(IF index = 1 THEN "a" ELSE "b", ref)>>)]
    \o (IF found.options.t = "null" THEN <<>>
        ELSE <<Object(<<Property("options", found.options)>>)>>)

\* build: the loops over the arguments of one operator.
RECURSIVE BuilderNode(_, _)
BuilderNode(entries, node) ==
    IF entries = <<>> THEN node
    ELSE LET e == Head(entries) IN
         IF e.key = "options"
         THEN BuilderNode(Tail(entries),
                [node EXCEPT !.options = Assign(@, ObjectEntries(e.value))])
         ELSE IF e.value.t = "list"
         THEN BuilderNode(Tail(entries),
                [node EXCEPT !.inputs =
                   @ \o [i \in DOMAIN e.value.v |-> e.value.v[i].v]])
         ELSE BuilderNode(Tail(entries),
                [node EXCEPT !.inputs = Append(@, e.value.v)])

\* build: graphResources.operators after the loop over namedOutputs.
RECURSIVE RenameOutputs(_, _)
RenameOutputs(operators, namedOutputs) ==
    IF namedOutputs = <<>> THEN operators
    ELSE LET e == Head(namedOutputs) IN
         IF e.value.name # e.key /\ Len(operators) > 0
         THEN RenameOutputs(
                [operators EXCEPT ![Len(operators)].outputs = Str(e.key)],
                Tail(namedOutputs))
         ELSE RenameOutputs(operators, Tail(namedOutputs))

\* build(namedOutputs): the graphJson of the MLGraph it returns.
BuildGraph(inputs, nodes, namedOutputs) ==
    LET operators ==
            RenameOutputs(
                [i \in DOMAIN nodes |->
                   [name |-> nodes[i].op, arguments |-> nodes[i].arguments,
                    outputs |-> nodes[i].outputs]],
                namedOutputs)
    IN  GraphDocument("ml_builder_graph",
            [i \in DOMAIN inputs |->
               Property(inputs[i].key, inputs[i].value.descriptor)],
            [i \in DOMAIN operators |->
               BuilderNode(ArgumentEntries(operators[i].arguments),
                   Node(OpId(i - 1), operators[i].name, <<>>, <<>>,
                        <<operators[i].outputs>>))],
            [i \in DOMAIN namedOutputs |->
               Property(namedOutputs[i].key, namedOutputs[i].key)])


\* A builder as its constructor leaves it, and no graph built.
NoDocument == GraphDocument("none", <<>>, <<>>, <<>>)

NewBuilder ==
    /\ builderInputs = <<>>
    /\ builderNodes = <<>>
    /\ tempId = 0
    /\ operands = {}
    /\ opCalls = <<>>
    /\ graphJson = NoDocument

\* builder.input(name, descriptor)
BuilderInput(name, descriptor) ==
    /\ call.fn = "none"
    /\ builderInputs' = Put(builderInputs, name,
                            [data |-> <<>>, descriptor |-> descriptor,
                             constant |-> FALSE])
    /\ operands' = operands \cup {MLOperand(name, descriptor)}
    /\ UNCHANGED <<builderNodes, tempId, opCalls, graphJson>>
    /\ UNCHANGED <<bridgeVars, mainVars, callVars, contextVars>>

\* builder.constant(descriptor, data)
BuilderConstant(descriptor, data) ==
    /\ call.fn = "none"
    /\ tempId < MaxNodes + MaxConstants
    /\ Cardinality({ i \in DOMAIN builderInputs :
                       builderInputs[i].value.constant }) < MaxConstants
    /\ LET name == "const_" \o ToString(tempId) IN
       /\ builderInputs' = Put(builderInputs, name,
                               [data |-> data, descriptor |-> descriptor,
                                constant |-> TRUE])
       /\ operands' = operands \cup {MLOperand(name, descriptor)}
    /\ tempId' = tempId + 1
    /\ UNCHANGED <<builderNodes, opCalls, graphJson>>
    /\ UNCHANGED <<bridgeVars, mainVars, callVars, contextVars>>

\* builder[name](...args) that leaves tempId as it was.
BuilderOpKeepsTempId(name, args) ==
    /\ call.fn = "none"
    /\ Len(builderNodes) < MaxNodes
    /\ LET found == ScanArgs(args, [inputRefs |-> <<>>, options |-> Null])
           outName == "tmp_" \o ToString(tempId)
       IN  /\ builderNodes' =
                 Append(builderNodes,
                        [id |-> OpId(Len(builderNodes)), op |-> name,
                         arguments |-> OpArgs(found), outputs |-> Str(outName)])
           /\ operands' = operands \cup
                 {MLOperand(outName, Descriptor("float32", <<>>))}
    /\ opCalls' = Append(opCalls, name)
    /\ UNCHANGED <<builderInputs, graphJson, tempId>>
    /\ UNCHANGED <<bridgeVars, mainVars, callVars, contextVars>>

\* builder[name](...args) for a name that is no member of the builder: _op
BuilderOp(name, args) ==
    /\ call.fn = "none"
    /\ Len(builderNodes) < MaxNodes
    /\ LET found == ScanArgs(args, [inputRefs |-> <<>>, options |-> Null])
           outName == "tmp_" \o ToString(tempId)
       IN  /\ builderNodes' =
                 Append(builderNodes,
                        [id |-> OpId(Len(builderNodes)), op |-> name,
                         arguments |-> OpArgs(found), outputs |-> Str(outName)])
           /\ operands' = operands \cup
                 {MLOperand(outName, Descriptor("float32", <<>>))}
    /\ tempId' = tempId + 1
    /\ opCalls' = Append(opCalls, name)
    /\ UNCHANGED <<builderInputs, graphJson>>
    /\ UNCHANGED <<bridgeVars, mainVars, callVars, contextVars>>

\* builder.build(namedOutputs)
BuilderBuild(namedOutputs) ==
    /\ call.fn = "none"
    /\ graphJson' = BuildGraph(builderInputs, builderNodes, namedOutputs)
    /\ UNCHANGED <<builderInputs, builderNodes, tempId, operands, opCalls>>
    /\ UNCHANGED <<bridgeVars, mainVars, callVars, contextVars>>

-----------------------------------------------------------------------------
(* SpecBridge: a RunnerClient and callers that do not wait for each other.  *)

InitBridge ==
    /\ spawned = 1
    /\ procState = "running"
    /\ killed = FALSE
    /\ stdinEnds = 0
    /\ termSignals = 0
    /\ closeCalls = 0
    /\ pending = {}
    /\ handle = [i \in Ids |-> FreshHandle]
    /\ nextId = 0
    /\ delivered = {}
    /\ uncaught = FALSE
    /\ MainIdle
    /\ CallIdle
    /\ NewBuilder
    /\ ContextIdle
    /\ opts = CHOOSE o \in Options : TRUE
    /\ fs = CHOOSE f \in FileSystems : TRUE

CallerExecuteGraph ==
    /\ NodeAlive
    /\ nextId < MaxRequests
    /\ ExecuteGraph
    /\ UNCHANGED mainVars
    /\ UNCHANGED <<callVars, builderVars, contextVars>>

CallerClose ==
    /\ NodeAlive
    /\ closeCalls < MaxClose
    /\ Close
    /\ UNCHANGED mainVars
    /\ UNCHANGED <<callVars, builderVars, contextVars>>

WorkerLine == \E l \in Lines(delivered) : RlLine(l)

NextBridge ==
    \/ CallerExecuteGraph
    \/ CallerClose
    \/ WorkerLine
    \/ ProcExit

SpecBridge == InitBridge /\ [][NextBridge]_vars

-----------------------------------------------------------------------------
(* SpecRun: main() of run-conformance.js with its RunnerClient and worker.  *)

InitRun ==
    /\ spawned = 0
    /\ procState = "none"
    /\ killed = FALSE
    /\ stdinEnds = 0
    /\ termSignals = 0
    /\ closeCalls = 0
    /\ pending = {}
    /\ handle = [i \in Ids |-> FreshHandle]
    /\ nextId = 0
    /\ delivered = {}
    /\ uncaught = FALSE
    /\ MainIdle
    /\ CallIdle
    /\ NewBuilder
    /\ ContextIdle
    /\ opts \in Options
    /\ fs \in FileSystems

\* The number of tests in the files read so far.
RECURSIVE TotalTests(_)
TotalTests(fxs) ==
    IF fxs = <<>> THEN 0 ELSE Len(Head(fxs).tests) + TotalTests(Tail(fxs))

ReadFile ==
    \E fx \in Fixtures :
        /\ TotalTests(fixtures) + Len(fx.tests) <= MaxTotalTests
        /\ MainReadFile(fx)

Exit == \E writeThrows \in BOOLEAN : MainExit(writeThrows)

NextRun ==
    \/ MainStart
    \/ MainList
    \/ ReadFile
    \/ MainAwait
    \/ Exit
    \/ WorkerLine
    \/ ProcExit

SpecRun == InitRun /\ [][NextRun]_vars

-----------------------------------------------------------------------------
(* Properties of the bridge (SpecBridge).                                   *)

\* The step in which the worker's exit is handled.
ExitStep == procState = "running" /\ procState' = "exited"

\* C1: when the worker exits with requests outstanding, every one of them is
\* rejected with the process-exit error and the pending table is empty after.
C1_ExitRejectsAllPending ==
    [][ExitStep =>
        /\ \A i \in pending :
              /\ handle'[i].state = "rejected"
              /\ handle'[i].error = ExitError
        /\ pending' = {}]_vars

C1_Witness ==
    /\ procState = "exited"
    /\ \E i, j \in Ids :
          /\ i # j
          /\ handle[i].state = "rejected" /\ handle[i].error = ExitError
          /\ handle[j].state = "rejected" /\ handle[j].error = ExitError

C3_LineSettlesOnlyItsRequest ==
    [][\A l \in ObjectLinesWithId(pending) :
          RlLine(l) =>
              LET X == MsgId(l) IN
              /\ pending' = pending \ {X}
              /\ \A j \in Ids \ {X} : handle'[j] = handle[j]
              /\ (l.ok = "true" =>
                    /\ handle'[X].state = "resolved"
                    /\ (l.hasOutputs => handle'[X].outputs = l.outputs))
              /\ (l.ok = "false" =>
                    /\ handle'[X].state = "rejected"
                    /\ (l.hasError /\ l.error.kind # Absent =>
                            handle'[X].error.kind = l.error.kind)
                    /\ (l.hasError /\ l.error.message # Absent =>
                            handle'[X].error.message = l.error.message))]_vars

\* Three requests outstanding; the last was resolved first, the first was
\* rejected by an error response, the middle one is still pending.
C3_Witness ==
    /\ nextId = 3
    /\ handle[3].state = "resolved" /\ handle[3].outputs # EmptyOutputs
    /\ handle[1].state = "rejected" /\ handle[1].error.kind \in ErrorKinds
    /\ handle[2].state = "pending" /\ 2 \in pending

\* A line that is blank, is not JSON, or is a JSON value whose id matches no
\* pending entry.
Unmatched(l) ==
    \/ l.t \in {"blank", "garbage", "null", "scalar"}
    \/ l.t = "object" /\ MsgId(l) \notin pending

\* C4: an unmatched line settles nothing, leaves the pending table as it was
\* and raises no error in the bridge.
C4_UnmatchedLineDropped ==
    [][\A l \in AllLines :
          (Unmatched(l) /\ RlLine(l)) =>
              /\ pending' = pending
              /\ handle' = handle
              /\ uncaught' = uncaught]_vars

\* C10: once the worker has exited no worker is started again, and a request
\* issued after the exit is never resolved.
C10_ExitedWorkerStaysDead ==
    /\ [](\A i \in Ids : handle[i].afterExit => handle[i].state # "resolved")
    /\ [][procState = "exited" =>
            procState' = "exited" /\ spawned' = spawned]_vars

\* A request sent after the exit, still unanswered, while an answer to an
\* earlier request had been delivered.
C10_Witness ==
    /\ procState = "exited"
    /\ \E i, j \in Ids :
          /\ handle[i].afterExit /\ handle[i].state = "pending"
          /\ handle[j].state = "resolved" /\ ~handle[j].afterExit

\* C11: a close() call after the first one writes no further end-of-input
\* to the worker and delivers no further termination signal, whether the
\* worker is running or has exited on its own; over the life of the client
\* at most one of each is sent.
C11_CloseIdempotent ==
    /\ [](termSignals <= 1)
    /\ [][closeCalls >= 1 /\ closeCalls' > closeCalls
            => /\ EndOfInputSent' = EndOfInputSent
               /\ termSignals' = termSignals
               /\ procState' = procState]_vars

\* close() was called twice on a client whose worker had exited on its own
\* before the first call.
C11_Witness ==
    /\ closeCalls = 2
    /\ procState = "exited"
    /\ ~killed
    /\ termSignals = 0

-----------------------------------------------------------------------------
(* Properties of a conformance run (SpecRun).                               *)

\* The positions <<file, case>> of the case records with a given status.
CasesWithStatus(files, status) ==
    UNION { { <<i, j>> : j \in { k \in DOMAIN files[i].cases :
                                    files[i].cases[k].status = status } } :
            i \in DOMAIN files }

FailCount(files) == Cardinality(CasesWithStatus(files, "fail"))

\* The number of case records of the run.
CaseCount(files) ==
    Cardinality(UNION { { <<i, j>> : j \in DOMAIN files[i].cases } :
                        i \in DOMAIN files })

\* The run has ended: main() is past the finally block.
RunEnd == spawned > 0 /\ pc \in {"report", "exited"}

\* The requested variant and the test name of every case a fully run file
\* reports, in order: variant by variant, test by test.
ExpectedCases(fx) ==
    LET ts == Slice(fx.tests, opts.limitTests)
        n == Len(ts)
    IN  [k \in 1..(Len(opts.variants) * n) |->
            [variant |-> opts.variants[((k - 1) \div n) + 1],
             testName |-> TestName(ts[((k - 1) % n) + 1], ((k - 1) % n) + 1)]]

\* File i was read and extracted, and every selected test has its one case
\* record per variant, in order.
FileFullyRun(i) ==
    /\ i <= Len(fixtures)
    /\ i <= Len(reportFiles)
    /\ fixtures[i].ok
    /\ LET exp == ExpectedCases(fixtures[i])
           cases == reportFiles[i].cases
       IN  /\ Len(cases) = Len(exp)
           /\ \A k \in DOMAIN cases :
                /\ cases[k].variant = exp[k].variant
                /\ cases[k].testName = exp[k].testName

\* File i could not be extracted: one file-level error, no case record.
FileErrorRecorded(i) ==
    /\ i <= Len(reportFiles)
    /\ reportFiles[i].fileError # ""
    /\ reportFiles[i].cases = <<>>
    /\ Cardinality({ k \in DOMAIN failures :
                       failures[k] = FileFailure(i) }) = 1

\* File i was processed: its error recorded, or all its cases run.
FileProcessed(i) ==
    /\ i <= Len(fixtures)
    /\ IF fixtures[i].ok THEN FileFullyRun(i) ELSE FileErrorRecorded(i)

\* C5: with stop-on-fail, the step that records a failed case records that
\* case only, sends no request and leaves the loops; after it no case is
\* recorded and no request is sent; so the run has at most one failed case.
C5_StopOnFailHalts ==
    /\ [](opts.stopOnFail => FailCount(reportFiles) <= 1)
    /\ [][opts.stopOnFail /\ FailCount(reportFiles') > FailCount(reportFiles)
            => /\ CaseCount(reportFiles') = CaseCount(reportFiles) + 1
               /\ Len(reportFiles') = Len(reportFiles)
               /\ nextId' = nextId
               /\ pc' = "report"]_vars
    /\ [][opts.stopOnFail /\ FailCount(reportFiles) >= 1
            => reportFiles' = reportFiles /\ nextId' = nextId]_vars

\* A run under stop-on-fail that ended after a case that did not fail and a
\* case that failed, with a third case of the file never attempted.
C5_Witness ==
    /\ opts.stopOnFail
    /\ pc = "exited"
    /\ \E i \in DOMAIN reportFiles :
         /\ Len(reportFiles[i].cases) = 2
         /\ reportFiles[i].cases[1].status # "fail"
         /\ reportFiles[i].cases[2].status = "fail"
         /\ reportFiles[i].selectedTests * Len(opts.variants) >= 3
    /\ FailCount(reportFiles) = 1

\* C6 as stated: at the end of a run that no fatal error ended, every file
\* that failed extraction has exactly one file-level error and no case
\* record, and every later file was processed and its cases run.
C6_AsStated ==
    RunEnd /\ ~fatalError =>
        \A i \in 1..Len(fixtures) :
            ~fixtures[i].ok =>
                /\ FileErrorRecorded(i)
                /\ \A j \in (i + 1)..fs.nFiles : FileProcessed(j)

\* C6: at run end every file that failed extraction has exactly one
\* file-level error and no case record, and, unless stop-on-fail halted the
\* run at a failed case or a fatal error ended it, every later file was
\* processed and its cases run.
C6_FileErrorDoesNotStopRun ==
    RunEnd =>
        \A i \in 1..Len(fixtures) :
            ~fixtures[i].ok =>
                /\ FileErrorRecorded(i)
                /\ ~halted /\ ~fatalError
                     => \A j \in (i + 1)..fs.nFiles : FileProcessed(j)

\* A run that ended with a first file that failed extraction and a second
\* file whose cases were run, a request sent for one of them.
C6_Witness ==
    /\ RunEnd
    /\ ~halted
    /\ ~fatalError
    /\ Len(fixtures) = 2
    /\ ~fixtures[1].ok
    /\ fixtures[2].ok
    /\ Len(reportFiles[2].cases) >= 2
    /\ nextId >= 1

\* The awaited request failed: an error response or the worker's exit
\* rejected it, or an expected output is missing, or its tensor is not the
\* expected one.
RequestFailed(test, h) ==
    \/ h.state = "rejected"
    \/ \E k \in DOMAIN test.graph.expectedOutputs :
         LET e == test.graph.expectedOutputs[k] IN
         \/ e.name \notin DOMAIN h.outputs
         \/ h.outputs[e.name].data # e.tensor.data
         \/ h.outputs[e.name].descriptor.shape # e.tensor.descriptor.shape

C8_ClosedOnEveryExitPath ==
    /\ (spawned > 0 /\ ~NodeAlive) => closeCalls >= 1
    /\ \A i \in Ids : ~handle[i].afterClose

\* C9: during a run the pending table holds at most one entry, and every
\* request but the latest is settled.
C9_OneOutstandingRequest ==
    /\ Cardinality(pending) <= 1
    /\ \A i \in 1..(nextId - 1) : handle[i].state \in {"resolved", "rejected"}

\* The second request of a run is outstanding, the first one settled.
C9_Witness ==
    /\ pc = "await"
    /\ nextId = 2
    /\ pending = {2}
    /\ handle[1].state = "resolved"

\* The entries of failures that record a fatal run-level error
\* (`FATAL :: ${err.message}`, pushed by the catch of main()'s outer try).
FatalFailures == { k \in DOMAIN failures : failures[k].kind = "FATAL" }

\* C12: a run whose listing of the fixture files threw has ended with exit
\* code 1 and exactly one fatal error in failures.
C12_ListingFailureIsFatalError ==
    (pc = "exited" /\ fs.wptExists /\ fs.listThrows)
        => /\ exitCode = "1"
           /\ Cardinality(FatalFailures) = 1

-----------------------------------------------------------------------------
(* SpecClassify: one call of shouldSkipTest(test, opts).                    *)

\* No client, main() not called.
ProgramIdle ==
    /\ spawned = 0
    /\ procState = "none"
    /\ killed = FALSE
    /\ stdinEnds = 0
    /\ termSignals = 0
    /\ closeCalls = 0
    /\ pending = {}
    /\ handle = [i \in Ids |-> FreshHandle]
    /\ nextId = 0
    /\ delivered = {}
    /\ uncaught = FALSE
    /\ MainIdle
    /\ NewBuilder
    /\ ContextIdle
    /\ opts = CHOOSE o \in Options : TRUE
    /\ fs = CHOOSE f \in FileSystems : TRUE

\* What a call returned.
Returned(v) == [done |-> TRUE, threw |-> FALSE, value |-> v]

MaxOperators == 2

ClassifyInputTypes == {"float32", "float64", "int64"}
ClassifyOutputTypes == {"float32", "uint8", "bfloat16"}

OperatorLists ==
    UNION { [1..n -> [name : OperatorNames]] : n \in 0..MaxOperators }

\* Tests that are objects with a graph: two inputs, one expected output.
ClassifyTests ==
    { NamedTest("t",
        [inputs |-> << Entry("a", Tensor(di, <<2>>, Numbers(<<1, 1>>))),
                       Entry("b", Tensor("float32", <<2>>, Numbers(<<0, 1>>))) >>,
         operators |-> ops,
         expectedOutputs |-> << Entry("y", Tensor(do, <<2>>, Numbers(<<1, 2>>))) >>]) :
        di \in ClassifyInputTypes, do \in ClassifyOutputTypes,
        ops \in OperatorLists }

ClassifyOptions ==
    { [(CHOOSE o \in Options : TRUE) EXCEPT !.skipUnimplemented = b] :
        b \in BOOLEAN }

InitClassify ==
    /\ ProgramIdle
    /\ call \in [fn : {"shouldSkipTest"}, test : ClassifyTests,
                 opts : ClassifyOptions]
    /\ result = NotCalled

CallShouldSkipTest ==
    /\ call.fn = "shouldSkipTest"
    /\ ~result.done
    /\ result' = Returned(shouldSkipTest(call.test, call.opts))
    /\ UNCHANGED <<bridgeVars, mainVars, builderVars, contextVars, call>>

NextClassify == CallShouldSkipTest

SpecClassify == InitClassify /\ [][NextClassify]_vars

\* A name without its underscores, in lower case.
RECURSIVE Squash(_)
Squash(cs) ==
    IF cs = <<>> THEN <<>>
    ELSE IF Head(cs) = "_" THEN Squash(Tail(cs))
    ELSE <<ToLower(Head(cs))>> \o Squash(Tail(cs))

\* The snake_case names of the unimplemented set that the modelled fixtures
\* can meet.
UnimplementedNames == UNIMPLEMENTED_OPS \cap NormalizedNames

\* Some tensor of the test has a data type outside the supported set.
HasUnsupportedTensor(test) ==
    \E e \in Range(test.graph.inputs \o test.graph.expectedOutputs) :
        e.tensor.descriptor.dataType \notin SUPPORTED_DTYPES

\* The graph has an operator the unimplemented set names: the same name up
\* to case and underscores (isNaN is is_nan, gruCell is gru_cell).
HasUnimplementedOperator(test) ==
    \E op \in Range(test.graph.operators) :
        \E u \in UnimplementedNames :
            Squash(Spelling(op.name)) = Squash(Spelling(u))

\* C13: a test case is classified as skip exactly when a tensor has an
\* unsupported data type, or skip-unimplemented is enabled and the graph has
\* an operator of the unimplemented set.
C13_SkipExactlyWhen ==
    result.done =>
        (result.value # ""
            <=> \/ HasUnsupportedTensor(call.test)
                \/ /\ call.opts.skipUnimplemented
                   /\ HasUnimplementedOperator(call.test))

-----------------------------------------------------------------------------
(* More properties of a conformance run (SpecRun).                          *)

\* The invocation is invalid: no fixture directory, or no file selected.
InvalidInvocation ==
    \/ ~fs.wptExists
    \/ ~fs.listThrows /\ fs.nFiles = 0

\* C14: when the process has exited, the exit code is 2 for a missing
\* fixture directory or an empty selection; else it is 0 exactly when the
\* exit-zero override is set or no executed case failed and no fatal error
\* occurred, and 1 otherwise.
C14_ExitCode ==
    pc = "exited" =>
        IF InvalidInvocation
        THEN exitCode = "2"
        ELSE /\ exitCode \in {"0", "1"}
             /\ exitCode = "0" <=>
                    \/ opts.exitZero
                    \/ /\ FailCount(reportFiles) = 0
                       /\ ~fs.listThrows
                       /\ ~fatalError

-----------------------------------------------------------------------------
(* SpecVerify: one call of assertOutputClose.                               *)

MaxElements == 2

\* What a call did: it returned (NoMessage) or threw the error msg.
Outcome(msg) == [done |-> TRUE, threw |-> msg # NoMessage, value |-> msg]

\* 1.0000001 and 1.001, to 28 significant bits.
OneAndATenMillionth == Num(FALSE, Pow2(27) + 13, -27)

OneAndAThousandth == Num(FALSE, 134351946, -27)

\* 1 + 3 * 2^-23, three float32 steps above 1.
OneAndThreeUlps == Num(FALSE, Pow2(23) + 3, -23)

\* 2^24, from where on the float32 values are two apart.
TwoTo24 == Natural(Pow2(24))

\* 1 + 2^-11, between 1e-4 and 2^-10 above 1.
OneAndA2048th == Num(FALSE, Pow2(11) + 1, -11)

Scalars ==
    { Num(FALSE, 0, 0), Num(TRUE, 0, 0), Natural(1), Num(TRUE, 1, 0),
      OneAndATenMillionth, OneAndThreeUlps, OneAndAThousandth, OneAndA2048th,
      TwoTo24, Natural(Pow2(24) + 1), Natural(Pow2(24) + 2),
      Natural(Pow2(24) + 8), Natural(Pow2(24) + 10),
      NaN, Infinity(FALSE), Infinity(TRUE), DecimalString(Natural(1)) }

FewScalars == { Natural(1), OneAndAThousandth, NaN, TwoTo24 }

\* The data of a tensor: up to MaxElements values, or 2 * MaxElements
\* natural numbers.
Arrays ==
    UNION { [1..n -> IF n <= 1 THEN Scalars ELSE FewScalars] :
              n \in 0..MaxElements }
    \cup [1..(2 * MaxElements) -> {Natural(1), Natural(2)}]

\* The shapes a tensor of n elements is given.
Shapes(n) ==
    IF n = 0 THEN { <<0>> }
    ELSE IF n = 1 THEN { <<>>, <<1>> }
    ELSE { <<n>>, <<2, n \div 2>> }

VerifyTypes == {"float32", "float16", "int32", "int64", "uint64"}

VerifyOperators == {"add", "relu", "cos"}

\* The tensors of the given data types, each with a shape of its length.
VerifyTensors(types) ==
    UNION { { Tensor(dt, shape, data) :
                dt \in types, shape \in Shapes(Len(data)) } :
            data \in Arrays }

InitVerify ==
    /\ ProgramIdle
    /\ call \in [fn : {"assertOutputClose"},
                 operatorName : VerifyOperators,
                 outputName : OutputNames,
                 expected : VerifyTensors(VerifyTypes),
                 actual : VerifyTensors({"float32", "int64"})]
    /\ result = NotCalled

CallAssertOutputClose ==
    /\ call.fn = "assertOutputClose"
    /\ ~result.done
    /\ result' = Outcome(assertOutputClose(call.operatorName, call.outputName,
                                           call.expected, call.actual))
    /\ UNCHANGED <<bridgeVars, mainVars, builderVars, contextVars, call>>

NextVerify == CallAssertOutputClose

SpecVerify == InitVerify /\ [][NextVerify]_vars

-----------------------------------------------------------------------------
(* Properties of the verifier (SpecVerify).                                 *)

\* The call of assertOutputClose has ended.
Verified == call.fn = "assertOutputClose" /\ result.done

SameLength == Len(call.expected.data) = Len(call.actual.data)

SameShape == call.expected.descriptor.shape = call.actual.descriptor.shape

\* Element i (from 1) of the actual tensor fails against the expected one.
Failing(i) ==
    ElementMismatch(call.operatorName, call.expected.descriptor.dataType,
                    call.expected.data[i], call.actual.data[i])

\* C15: the verifier checks the element counts, then the shapes, then the
\* elements, and fails on the first check that does not hold: tensors of
\* different length fail with a length mismatch, tensors of equal length and
\* different shapes (equal data or not) fail with a shape mismatch, and a
\* value mismatch is raised only past both checks and names the lowest
\* index of a failing element.
C15_ChecksInOrder ==
    Verified =>
        /\ ~SameLength => result.value.text = "length mismatch"
        /\ SameLength /\ ~SameShape => result.value.text = "shape mismatch"
        /\ SameLength /\ SameShape
             /\ (\E i \in DOMAIN call.expected.data : Failing(i))
             => result.threw
        /\ result.value.text = "value mismatch" =>
             /\ SameLength
             /\ SameShape
             /\ Failing(result.value.index + 1)
             /\ \A j \in 1..result.value.index : ~Failing(j)

\* Equal data of shapes [2, 2] and [4] has been refused as a shape mismatch.
C15_Witness ==
    /\ Verified
    /\ call.expected.data = call.actual.data
    /\ call.expected.descriptor.shape = <<2, 2>>
    /\ call.actual.descriptor.shape = <<4>>
    /\ result.value.text = "shape mismatch"

\* The tensors of the call have the same number of elements and element for
\* element the same numeric value.
SameValues ==
    /\ SameLength
    /\ \A i \in DOMAIN call.expected.data :
         Number(call.expected.data[i]) = Number(call.actual.data[i])

\* The expected tensor holds values of its data type: integers when the type
\* is a 64-bit integer type.
ExpectedWellTyped ==
    call.expected.descriptor.dataType \in {"int64", "uint64"} =>
        \A i \in DOMAIN call.expected.data : IsInteger(call.expected.data[i])

\* C16: whatever the data type and the operator, the verifier accepts an
\* actual tensor that has the shape of the expected tensor and element for
\* element the same values (NaN and infinities included).
C16_AcceptsEqualTensor ==
    (Verified /\ ExpectedWellTyped /\ SameShape /\ SameValues) => ~result.threw

\* A tensor holding NaN has been accepted against itself.
C16_Witness ==
    /\ Verified
    /\ SameShape
    /\ SameValues
    /\ \E i \in DOMAIN call.expected.data : IsNaN(call.expected.data[i])
    /\ ~result.threw

\* The call compares tensors of a 64-bit integer type, of one length and
\* shape, whose elements are all integers.
IntegerComparison ==
    /\ call.expected.descriptor.dataType \in {"int64", "uint64"}
    /\ SameLength
    /\ SameShape
    /\ \A i \in DOMAIN call.expected.data :
         IsInteger(call.expected.data[i]) /\ IsInteger(call.actual.data[i])

\* C17: tensors of 64-bit integer type are accepted exactly when every
\* element is the same integer on both sides, whatever the operator: values
\* that the tolerances of the other types would let pass (2^24 and 2^24 + 1
\* are the same float32) are refused.
C17_IntegersCompareExactly ==
    (Verified /\ IntegerComparison) =>
        (~result.threw <=>
           \A i \in DOMAIN call.expected.data :
             StrictEquals(Number(call.expected.data[i]),
                          Number(call.actual.data[i])))

\* 2^24 + 1 has been refused where 2^24 was expected, as a value mismatch.
C17_Witness ==
    /\ Verified
    /\ IntegerComparison
    /\ call.expected.data = <<TwoTo24>>
    /\ call.actual.data = <<Natural(Pow2(24) + 1)>>
    /\ result.value.text = "value mismatch"
    /\ result.value.index = 0

\* The call compares tensors of a floating type, of one length and shape.
FloatComparison ==
    /\ StartsWithFloat(call.expected.descriptor.dataType)
    /\ SameLength
    /\ SameShape

\* Element i passes: both sides are NaN, or one side is not finite and the
\* two are the same value, or both are finite and within the absolute
\* tolerance or within the ULP budget of the operator.
Passes(i) ==
    LET e == Number(call.expected.data[i])
        a == Number(call.actual.data[i])
        dataType == call.expected.descriptor.dataType
    IN  \/ IsNaN(e) /\ IsNaN(a)
        \/ (~IsFinite(e) \/ ~IsFinite(a)) /\ StrictEquals(e, a)
        \/ /\ IsFinite(e)
           /\ IsFinite(a)
           /\ \/ ~ExceedsTol(AbsDiff(a, e), AbsTol(call.operatorName, dataType))
              \/ ~ExceedsUlps(ulpDistanceF32(a, e), UlpTol(call.operatorName))

\* The call verifies the one-element float32 output a of an "add" against 1.
AddToOne(a) ==
    /\ call.operatorName = "add"
    /\ call.expected.descriptor.dataType = "float32"
    /\ call.expected.data = <<Natural(1)>>
    /\ call.actual.data = <<a>>
    /\ SameShape

\* C18: tensors of a floating type are accepted exactly when every element
\* passes: both NaN, or not both finite and identical, or both finite and
\* within the absolute tolerance or the ULP budget. For "add" (budget 1) on
\* float32, 1.0000001 is accepted and 1.001 is refused where 1 is expected.
C18_FloatsCompareWithinTolerance ==
    Verified =>
        /\ FloatComparison =>
             (~result.threw <=> \A i \in DOMAIN call.expected.data : Passes(i))
        /\ AddToOne(OneAndATenMillionth) => ~result.threw
        /\ AddToOne(OneAndAThousandth) => result.value.text = "value mismatch"

\* 2^24 + 2, one float32 step and far more than the absolute tolerance away
\* from the expected 2^24, has been accepted for "add".
C18_Witness ==
    /\ Verified
    /\ FloatComparison
    /\ call.operatorName = "add"
    /\ call.expected.data = <<TwoTo24>>
    /\ call.actual.data = <<Natural(Pow2(24) + 2)>>
    /\ ~result.threw

-----------------------------------------------------------------------------
(* SpecUlp: one call of ulpDistanceF32.                                     *)

\* The smallest float32 above 0 and the smallest normal one.
MinSubnormal(neg) == Num(neg, 1, -149)

MinNormal == Num(FALSE, 1, -126)

\* The largest finite float32.
MaxFloat32(neg) == Num(neg, Pow2(24) - 1, 104)

Float32Values ==
    { Num(FALSE, 0, 0), Num(TRUE, 0, 0),
      MinSubnormal(FALSE), MinSubnormal(TRUE),
      Num(FALSE, 2, -149), Num(TRUE, 2, -149),
      Num(FALSE, Pow2(23) - 1, -149), MinNormal,
      Num(FALSE, Pow2(24) - 1, -24), Natural(1), Num(FALSE, Pow2(23) + 1, -23),
      Num(TRUE, Pow2(24) - 1, -24), Num(TRUE, 1, 0), Num(TRUE, Pow2(23) + 1, -23),
      Num(FALSE, Pow2(24) - 1, -23), Natural(2),
      TwoTo24, Natural(Pow2(24) + 2),
      MaxFloat32(FALSE), MaxFloat32(TRUE) }

\* The arguments of a call: float32 values, a double that is not one, NaN
\* and the infinities.
UlpArguments ==
    Float32Values
    \cup { OneAndATenMillionth, NaN, Infinity(FALSE), Infinity(TRUE) }

InitUlp ==
    /\ ProgramIdle
    /\ call \in [fn : {"ulpDistanceF32"}, a : UlpArguments, b : UlpArguments]
    /\ result = NotCalled

CallUlpDistanceF32 ==
    /\ call.fn = "ulpDistanceF32"
    /\ ~result.done
    /\ result' = Returned(ulpDistanceF32(call.a, call.b))
    /\ UNCHANGED <<bridgeVars, mainVars, builderVars, contextVars, call>>

NextUlp == CallUlpDistanceF32

SpecUlp == InitUlp /\ [][NextUlp]_vars

-----------------------------------------------------------------------------
(* Properties of the ULP distance (SpecUlp).                                *)

\* The exponent q of the float32 grid around the finite v: near v the
\* float32 values are the multiples of 2^q.
GridExponent(v) ==
    IF v.m = 0 THEN -149 ELSE Max(Log2Floor(v.m) + v.x - 23, -149)

\* The float32 value next above the float32 value v.
NextAbove(v) ==
    LET q == GridExponent(v)
        s == IF v.m = 0 THEN 0 ELSE v.m * Pow2(v.x - q)
    IN  IF v.m = 0 \/ ~v.neg THEN Num(FALSE, s + 1, q)
        ELSE IF s = Pow2(23) /\ q > -149 THEN Num(TRUE, Pow2(24) - 1, q - 1)
        ELSE Num(TRUE, s - 1, q)

\* a and b are float32 values with no float32 value between them.
Adjacent(a, b) ==
    /\ a \in Float32Values
    /\ b \in Float32Values
    /\ StrictEquals(NextAbove(a), b) \/ StrictEquals(NextAbove(b), a)

\* C19: for finite arguments ulpDistanceF32 is symmetric and is 0 on equal
\* arguments (+0 and -0 are equal); two float32 values with no float32 value
\* between them, the pairs made of a zero and a smallest subnormal of either
\* sign included, are at distance 1; the distance is Infinity when exactly
\* one argument is not finite.
C19_UlpDistance ==
    (call.fn = "ulpDistanceF32" /\ result.done) =>
        /\ IsFinite(call.a) /\ IsFinite(call.b) =>
             result.value = ulpDistanceF32(call.b, call.a)
        /\ IsFinite(call.a) /\ StrictEquals(call.a, call.b) =>
             result.value = Ulps(0, 0)
        /\ Adjacent(call.a, call.b) => result.value = Ulps(0, 1)
        /\ IsFinite(call.a) # IsFinite(call.b) => result.value = InfiniteUlps

\* The distance from the largest negative float32 to +0 has been found 1.
C19_Witness ==
    /\ call.fn = "ulpDistanceF32"
    /\ result.done
    /\ call.a = MinSubnormal(TRUE)
    /\ call.b = Num(FALSE, 0, 0)
    /\ Adjacent(call.a, call.b)
    /\ result.value = Ulps(0, 1)

-----------------------------------------------------------------------------
(* SpecGraph: one call of buildGraphJson, or one MLGraphBuilder and its     *)
(* caller.                                                                  *)

MethodNames == {"add", "concat"}

InputNames == {"x"}

OutputNameSet == {"out", "y"}

SomeOptions ==
    Object(<<Property("axis", Float(1)), Property("big", Num64(5)),
             Property("sizes", List(<<Num64(7),
                                      Object(<<Property("k", Num64(8))>>)>>))>>)

\* The argument lists of an operator call by a caller holding the operands.
ArgLists(held) ==
    { <<>> }
    \cup { <<Operand(a)>> : a \in held }
    \cup { <<Operand(a), Operand(b)>> : a \in held, b \in held }
    \cup { <<List(<<Operand(a), Operand(b)>>)>> : a \in held, b \in held }
    \cup { <<Operand(a), SomeOptions>> : a \in held }
    \cup { <<Float(1), Operand(a)>> : a \in held }

\* The namedOutputs objects of a caller holding the operands.
NamedOutputs(held) ==
    { <<>> }
    \cup { <<Property(n, a)>> : n \in OutputNameSet, a \in held }
    \cup { <<Property("out", a), Property("y", b)>> : a \in held, b \in held }

\* The operators of graph resources.
OperatorCatalogue ==
    { [name |-> "relu"],
      [name |-> "add",
       arguments |-> << Object(<<Property("a", Str("a"))>>),
                        Object(<<Property("b", Str("b"))>>) >>,
       outputs |-> Str("y")],
      [name |-> "concat",
       arguments |-> << Object(<<Property("inputs", List(<<Str("a"), Str("b")>>))>>),
                        Object(<<Property("axis", Float(1))>>) >>,
       outputs |-> Str("y")],
      [name |-> "split",
       arguments |-> << Object(<<Property("input", Str("a"))>>),
                        Object(<<Property("options", SomeOptions)>>) >>,
       outputs |-> List(<<Str("y"), Str("z")>>)],
      [name |-> "cast",
       arguments |-> << Object(<<Property("input", Str("a"))>>),
                        Object(<<Property("type", Str("int32"))>>) >>,
       outputs |-> Str("y")] }

GraphResources ==
    { [inputs |-> << Entry("a", Tensor("float32", <<2>>, Numbers(<<1, 1>>))),
                     Entry("b", Tensor("float32", <<2>>, Numbers(<<0, 1>>))) >>,
       operators |-> ops,
       expectedOutputs |->
           << Entry("y", Tensor("float32", <<2>>, Numbers(<<1, 2>>))) >>] :
      ops \in UNION { [1..n -> OperatorCatalogue] : n \in 0..MaxOperators } }

InitGraph ==
    /\ ProgramIdle
    /\ \/ call = NoCall
       \/ call \in [fn : {"buildGraphJson"}, graphResources : GraphResources]
    /\ result = NotCalled

CallBuildGraphJson ==
    /\ call.fn = "buildGraphJson"
    /\ ~result.done
    /\ result' = Returned(buildGraphJson(call.graphResources))
    /\ UNCHANGED <<bridgeVars, mainVars, builderVars, contextVars, call>>

CallerInput ==
    \E name \in InputNames : BuilderInput(name, Descriptor("float32", <<2>>))

CallerConstant == BuilderConstant(Descriptor("float32", <<1>>), <<1>>)

CallerOp ==
    \E name \in MethodNames : \E args \in ArgLists(operands) :
        BuilderOp(name, args)

CallerBuild == \E namedOutputs \in NamedOutputs(operands) : BuilderBuild(namedOutputs)

NextGraph ==
    \/ CallBuildGraphJson
    \/ CallerInput
    \/ CallerConstant
    \/ CallerOp
    \/ CallerBuild

SpecGraph == InitGraph /\ [][NextGraph]_vars

-----------------------------------------------------------------------------
(* Properties of the GraphDocuments (SpecGraph).                            *)

\* The node list of doc has one node per name of names, in their order, and
\* its node at position i (from 0) has the id "op_" followed by i.
NodesInOrder(doc, names) ==
    /\ Len(doc.nodes) = Len(names)
    /\ \A i \in DOMAIN doc.nodes :
         /\ doc.nodes[i].id = "op_" \o ToString(i - 1)
         /\ doc.nodes[i].op = names[i]

\* The document that build() of this step returns.
BuildStep == graphJson' # graphJson

\* C20: every GraphDocument has one node per source operator, in source
\* order, the node at position i having the id op_i: the document of
\* buildGraphJson for the operators of its graph resources, and the document
\* of every build() for the operator calls made on the builder so far.
C20_NodeIdsFollowSourceOrder ==
    /\ [](call.fn = "buildGraphJson" /\ result.done =>
            NodesInOrder(result.value,
                         [i \in DOMAIN call.graphResources.operators |->
                            call.graphResources.operators[i].name]))
    /\ [][BuildStep => NodesInOrder(graphJson', opCalls)]_vars

\* build() has returned a document of two nodes of different operators.
C20_Witness ==
    /\ Len(graphJson.nodes) = 2
    /\ Len(opCalls) = 2
    /\ opCalls[1] # opCalls[2]
    /\ NodesInOrder(graphJson, opCalls)

\* The positions of the nodes of the builder whose output is the operand.
Producers(nodes, operand) ==
    { i \in DOMAIN nodes : nodes[i].outputs = Str(operand.name) }

\* namedOutputs designates every operand at most once.
DistinctOperands(namedOutputs) ==
    \A i, j \in DOMAIN namedOutputs :
        namedOutputs[i].value = namedOutputs[j].value => i = j

\* In doc, the node that produced each designated operand has the output
\* list of the name chosen for it, and every other node has the output list
\* of the name the builder generated for it.
OutputsRenamed(doc, nodes, namedOutputs) ==
    /\ Len(doc.nodes) = Len(nodes)
    /\ \A e \in Range(namedOutputs) : \A i \in Producers(nodes, e.value) :
         doc.nodes[i].outputs = <<Str(e.key)>>
    /\ \A i \in DOMAIN nodes :
         (\A e \in Range(namedOutputs) : i \notin Producers(nodes, e.value)) =>
             doc.nodes[i].outputs = <<nodes[i].outputs>>

\* Every operand namedOutputs designates is the result of an operator call.
AllProduced(nodes, namedOutputs) ==
    \A e \in Range(namedOutputs) : Producers(nodes, e.value) # {}

\* C21: build(namedOutputs) gives each caller-chosen name to the output of
\* the node that produced the designated operand and renames the output of
\* no other node, whichever node produced it and however many are named
\* (stated for designated operands that are results of operator calls, each
\* designated once).
C21_BuildRenamesProducingNode ==
    [][\A namedOutputs \in NamedOutputs(operands) :
          /\ BuilderBuild(namedOutputs)
          /\ DistinctOperands(namedOutputs)
          /\ AllProduced(builderNodes, namedOutputs)
          => OutputsRenamed(graphJson', builderNodes, namedOutputs)]_vars

\* The names the builder has generated: those of its constants and those of
\* the results of its operator calls.
AutoNames(inputs, nodes) ==
    { inputs[i].key : i \in { j \in DOMAIN inputs : inputs[j].value.constant } }
    \cup { nodes[i].outputs.v : i \in DOMAIN nodes }

\* A step that is a call of a method that is no member of the builder.
OpStep == opCalls' # opCalls

\* A step that is a call of constant().
ConstantStep == tempId' # tempId /\ opCalls' = opCalls

\* C22: a call of a method that is no member of the builder appends exactly
\* one node, whose operator is the method name, and returns an operand that
\* the session did not hold; the name of that operand, and the name constant()
\* generates, is none of the names generated before, so the generated names
\* are pairwise distinct after any sequence of calls.
C22_OneNodePerCall ==
    /\ [][OpStep =>
            /\ Len(builderNodes') = Len(builderNodes) + 1
            /\ SubSeq(builderNodes', 1, Len(builderNodes)) = builderNodes
            /\ builderNodes'[Len(builderNodes')].op = opCalls'[Len(opCalls')]
            /\ \E o \in operands' \ operands :
                 /\ operands' = operands \cup {o}
                 /\ Str(o.name) = builderNodes'[Len(builderNodes')].outputs
                 /\ o.name \notin AutoNames(builderInputs, builderNodes)]_vars
    /\ [][ConstantStep =>
            /\ Len(builderInputs') = Len(builderInputs) + 1
            /\ builderNodes' = builderNodes
            /\ \E o \in operands' \ operands :
                 /\ builderInputs'[Len(builderInputs')].key = o.name
                 /\ o.name \notin AutoNames(builderInputs, builderNodes)]_vars
    /\ [](Cardinality(AutoNames(builderInputs, builderNodes)) = tempId)

\* Two operator calls and one call of constant() have been made, the
\* constant between the operator calls, and three names have been generated.
C22_Witness ==
    /\ Len(builderNodes) = 2
    /\ opCalls = <<"add", "concat">>
    /\ builderNodes[1].outputs = Str("tmp_0")
    /\ builderNodes[2].outputs = Str("tmp_2")
    /\ "const_1" \in AutoNames(builderInputs, builderNodes)
    /\ Cardinality(AutoNames(builderInputs, builderNodes)) = 3

-----------------------------------------------------------------------------
(* Runtime tensors: buildRuntimeInputs of build-graph-json.js, makeZeroData *)
(* and toPlainArray of the shim, castActual and castExpected of             *)
(* tolerance.js.                                                            *)
(*                                                                          *)
(* A 64-bit integer (a JavaScript bigint) is its sign and the four 16-bit   *)
(* limbs of its magnitude, the most significant first; a decimal string is  *)
(* the string of its characters.                                            *)

ZeroLimbs == <<0, 0, 0, 0>>

Int64(neg, limbs) == Val("bigint", [neg |-> neg, limbs |-> limbs])

DecimalDigits == <<"0", "1", "2", "3", "4", "5", "6", "7", "8", "9">>

\* The limbs of the quotient by ten and the remainder, by long division from
\* limb i on.
RECURSIVE DivideByTen(_, _, _)
DivideByTen(limbs, i, acc) ==
    IF i > Len(limbs) THEN acc
    ELSE LET cur == acc.r * Pow2(16) + limbs[i] IN
         DivideByTen(limbs, i + 1,
                     [q |-> Append(acc.q, cur \div 10), r |-> cur % 10])

\* The decimal digits of a magnitude, none for zero.
RECURSIVE MagnitudeToString(_)
MagnitudeToString(limbs) ==
    IF limbs = ZeroLimbs THEN ""
    ELSE LET d == DivideByTen(limbs, 1, [q |-> <<>>, r |-> 0]) IN
         MagnitudeToString(d.q) \o DecimalDigits[d.r + 1]

\* v.toString() of a bigint that writes no sign.
BigIntToStringUnsigned(v) ==
    IF v.limbs = ZeroLimbs THEN "0" ELSE MagnitudeToString(v.limbs)

\* v.toString() of a bigint
BigIntToString(v) ==
    IF v.limbs = ZeroLimbs THEN "0"
    ELSE (IF v.neg THEN "-" ELSE "") \o MagnitudeToString(v.limbs)

\* limbs * 10 + carry, from limb i down; a magnitude of 2^64 or more, which
\* no 64-bit tensor holds, is not kept.
RECURSIVE TimesTenPlus(_, _, _)
TimesTenPlus(limbs, i, carry) ==
    IF i = 0 THEN limbs
    ELSE LET cur == limbs[i] * 10 + carry IN
         TimesTenPlus([limbs EXCEPT ![i] = cur % Pow2(16)], i - 1,
                      cur \div Pow2(16))

DigitValue(c) == CHOOSE d \in 0..9 : DecimalDigits[d + 1] = c

RECURSIVE StringToMagnitude(_, _)
StringToMagnitude(chars, limbs) ==
    IF chars = "" THEN limbs
    ELSE StringToMagnitude(Tail(chars),
             TimesTenPlus(limbs, Len(limbs), DigitValue(Head(chars))))

\* BigInt(value) of a decimal string
StringToBigInt(chars) ==
    LET neg == chars # "" /\ Head(chars) = "-"
        limbs == StringToMagnitude(IF neg THEN Tail(chars) ELSE chars, ZeroLimbs)
    IN  [neg |-> neg /\ limbs # ZeroLimbs, limbs |-> limbs]

\* BigInt(value): of a bigint, of a decimal string, of an integral number
\* below 2^31.
ToBigInt(value) ==
    IF value.t = "bigint" THEN value
    ELSE IF value.t = "string" THEN Val("bigint", StringToBigInt(value.v))
    ELSE Int64(value.v < 0,
               <<0, 0, Abs(value.v) \div Pow2(16), Abs(value.v) % Pow2(16)>>)

\* tolerance.js: castActual; Number(value) of a number is the number.
castActual(value, dataType) ==
    IF dataType = "float16" THEN value
    ELSE IF dataType \in {"int64", "uint64"} THEN ToBigInt(value)
    ELSE value

\* tolerance.js: castExpected
castExpected(value, dataType) ==
    IF dataType \in {"int64", "uint64"} THEN ToBigInt(value)
    ELSE value

\* graphResources.inputs ?? {}
ResourceInputs(graphResources) ==
    IF "inputs" \in DOMAIN graphResources THEN graphResources.inputs ELSE <<>>

\* build-graph-json.js: buildRuntimeInputs
buildRuntimeInputs(graphResources) ==
    [i \in DOMAIN ResourceInputs(graphResources) |->
       LET input == ResourceInputs(graphResources)[i].tensor
           data == IF input.data.t = "list" THEN input.data.v ELSE <<input.data>>
       IN  Property(ResourceInputs(graphResources)[i].name,
              [descriptor |-> [dataType |-> input.descriptor.dataType,
                               shape |-> input.descriptor.shape],
               data |-> [j \in DOMAIN data |->
                           IF data[j].t = "bigint"
                           THEN Str(BigIntToString(data[j].v))
                           ELSE data[j]]])]

\* product(shape)
RECURSIVE product(_)
product(shape) ==
    IF shape = <<>> THEN 1 ELSE Head(shape) * product(Tail(shape))

\* makeZeroData(descriptor): the elements of the typed array.
makeZeroData(descriptor) ==
    [i \in 1..Max(product(descriptor.shape), 1) |->
       IF descriptor.dataType \in {"int64", "uint64"}
       THEN Int64(FALSE, ZeroLimbs)
       ELSE Float(0)]

\* toPlainArray(typed, dataType)
toPlainArray(typed, dataType) ==
    IF dataType \in {"int64", "uint64"}
    THEN [i \in DOMAIN typed |-> Str(BigIntToString(typed[i].v))]
    ELSE typed

-----------------------------------------------------------------------------
(* SpecRuntime: one call of buildRuntimeInputs, of makeZeroData or of       *)
(* toPlainArray, and the casts of the elements that came back as they were  *)
(* sent.                                                                    *)

LimbValues == {0, 1, 65535}

\* Magnitudes below 2^64: 2^63, 2^63 - 1 and 2^53 + 1 among them.
Magnitudes ==
    [1..Len(ZeroLimbs) -> LimbValues]
    \cup { <<32768, 0, 0, 0>>, <<32767, 65535, 65535, 65535>>, <<32, 0, 0, 1>> }

\* The values of an element of a tensor of a 64-bit data type.
Values64(dataType) ==
    IF dataType = "uint64" THEN { Int64(FALSE, m) : m \in Magnitudes }
    ELSE { Int64(FALSE, m) : m \in { n \in Magnitudes : n[1] < Pow2(15) } }
         \cup { Int64(TRUE, m) :
                  m \in { n \in Magnitudes :
                            /\ n # ZeroLimbs
                            /\ n[1] < Pow2(15) \/ n = <<32768, 0, 0, 0>> } }

Is64(dataType) == dataType \in {"int64", "uint64"}

RuntimeTypes == {"int64", "uint64", "float32"}

RuntimeShapes == { <<>>, <<2>>, <<0>>, <<2, 1>> }

Elements(dataType) ==
    IF Is64(dataType) THEN Values64(dataType) ELSE { Float(0), Float(3) }

\* The data of an input of graph resources: one value, or a list.
InputData(dataType) ==
    Elements(dataType)
    \cup { List(<<>>) }
    \cup { List(<<v>>) : v \in Elements(dataType) }
    \cup { List(<<v, IF Is64(dataType) THEN Int64(FALSE, <<0, 0, 0, 7>>)
                      ELSE Float(7)>>) : v \in Elements(dataType) }

RuntimeResources ==
    { [expectedOutputs |-> <<>>] }
    \cup UNION { { [inputs |-> << Entry("a", Tensor(dataType, shape, data)) >>] :
                     shape \in RuntimeShapes, data \in InputData(dataType) } :
                 dataType \in RuntimeTypes }

\* The elements of a typed array of the data type.
TypedArrays(dataType) ==
    { <<>> } \cup { <<v>> : v \in Elements(dataType) }

InitRuntime ==
    /\ ProgramIdle
    /\ \/ call \in [fn : {"buildRuntimeInputs"}, graphResources : RuntimeResources]
       \/ call \in [fn : {"makeZeroData"},
                    descriptor : { Descriptor(dataType, shape) :
                                     dataType \in RuntimeTypes,
                                     shape \in RuntimeShapes }]
       \/ \E dataType \in RuntimeTypes :
            call \in [fn : {"toPlainArray"}, typed : TypedArrays(dataType),
                      dataType : {dataType}]
    /\ result = NotCalled

CallBuildRuntimeInputs ==
    /\ call.fn = "buildRuntimeInputs"
    /\ ~result.done
    /\ result' = Returned(buildRuntimeInputs(call.graphResources))
    /\ UNCHANGED <<bridgeVars, mainVars, builderVars, contextVars, call>>

CallMakeZeroData ==
    /\ call.fn = "makeZeroData"
    /\ ~result.done
    /\ result' = Returned(makeZeroData(call.descriptor))
    /\ UNCHANGED <<bridgeVars, mainVars, builderVars, contextVars, call>>

CallToPlainArray ==
    /\ call.fn = "toPlainArray"
    /\ ~result.done
    /\ result' = Returned(toPlainArray(call.typed, call.dataType))
    /\ UNCHANGED <<bridgeVars, mainVars, builderVars, contextVars, call>>

\* The cast of one element of a runtime tensor that was sent, when it comes
\* back as it was sent; sent is the element as it was before the encoding.
Cast(fn, value, dataType, sent) ==
    /\ call' = [fn |-> fn, value |-> value, dataType |-> dataType, sent |-> sent]
    /\ result' = Returned(IF fn = "castActual" THEN castActual(value, dataType)
                          ELSE castExpected(value, dataType))
    /\ UNCHANGED <<bridgeVars, mainVars, builderVars, contextVars>>

\* The data of a tensor of graph resources, as the list buildRuntimeInputs
\* makes of it.
DataList(tensor) ==
    IF tensor.data.t = "list" THEN tensor.data.v ELSE <<tensor.data>>

CallCast ==
    /\ result.done
    /\ \E fn \in {"castActual", "castExpected"} :
         \/ /\ call.fn = "buildRuntimeInputs"
            /\ \E i \in DOMAIN result.value :
               \E j \in DOMAIN result.value[i].value.data :
                 Cast(fn, result.value[i].value.data[j],
                      result.value[i].value.descriptor.dataType,
                      DataList(call.graphResources.inputs[i].tensor)[j])
         \/ /\ call.fn = "toPlainArray"
            /\ \E j \in DOMAIN result.value :
                 Cast(fn, result.value[j], call.dataType, call.typed[j])

NextRuntime ==
    \/ CallBuildRuntimeInputs
    \/ CallMakeZeroData
    \/ CallToPlainArray
    \/ CallCast

SpecRuntime == InitRuntime /\ [][NextRuntime]_vars

-----------------------------------------------------------------------------
(* Properties of the runtime tensors (SpecRuntime).                         *)

\* An element of a 64-bit tensor that was sent as a bigint has been cast.
CastOfSent64 ==
    /\ call.fn \in {"castActual", "castExpected"}
    /\ result.done
    /\ Is64(call.dataType)
    /\ call.sent.t = "bigint"

\* C23: a value of an int64 or uint64 tensor is sent as a decimal string, and
\* the cast of that string, by castActual and by castExpected, is the value
\* that was sent, for every value of the data type.
C23_DecimalStringRoundTrip ==
    CastOfSent64 =>
        /\ call.value.t = "string"
        /\ result.value = call.sent

\* The least int64 has gone through buildRuntimeInputs and castActual, and
\* the greatest uint64 through toPlainArray and castExpected.
C23_Witness ==
    /\ CastOfSent64
    /\ \/ /\ call.fn = "castActual"
          /\ call.dataType = "int64"
          /\ call.sent = Int64(TRUE, <<32768, 0, 0, 0>>)
          /\ call.value = Str("-9223372036854775808")
       \/ /\ call.fn = "castExpected"
          /\ call.dataType = "uint64"
          /\ call.sent = Int64(FALSE, <<65535, 65535, 65535, 65535>>)
          /\ call.value = Str("18446744073709551615")
    /\ result.value = call.sent

\* C27: every runtime tensor buildRuntimeInputs produces has as many data
\* elements as the product of the shape of its descriptor, which is 1 for a
\* shape of no dimensions.
C27_DataLengthIsShapeProduct ==
    (call.fn = "buildRuntimeInputs" /\ result.done) =>
        \A i \in DOMAIN result.value :
            Len(result.value[i].value.data) =
                product(result.value[i].value.descriptor.shape)

-----------------------------------------------------------------------------
(* extract-tests.js: extractTestsFromSource.                                *)
(*                                                                          *)
(* A source text is the sequence of its top-level statements.               *)

\* const name = value; bracket: the text after the = begins with [
Const(name, bracket, value) ==
    [kind |-> "const", name |-> name, bracket |-> bracket, value |-> value]

\* A comment that holds the text `const name = [`.
Comment(name) ==
    [kind |-> "comment", name |-> name, bracket |-> TRUE, value |-> Undefined]

\* throw ...; / a loop that does not end / webnn_conformance_test(...);
Statement(kind) ==
    [kind |-> kind, name |-> "", bracket |-> FALSE, value |-> Undefined]

\* The names that match \w+Tests.
TestsNames == {"addTests", "subTests"}

\* sourceText.match(/const\s+(\w+Tests)\s*=\s*\[/): the positions of the
\* texts that match.
Matches(source) ==
    { i \in DOMAIN source :
        /\ source[i].kind \in {"const", "comment"}
        /\ source[i].name \in TestsNames
        /\ source[i].bracket }

\* code.replace(/\nwebnn_conformance_test\([\s\S]*?\);\s*$/m, '\n'): the
\* first call of webnn_conformance_test is taken out.
RemoveCall(source) ==
    LET calls == { i \in DOMAIN source : source[i].kind = "call" } IN
    IF calls = {} THEN source
    ELSE LET first == CHOOSE i \in calls : \A j \in calls : i <= j IN
         SubSeq(source, 1, first - 1) \o SubSeq(source, first + 1, Len(source))

\* A thrown error, as the result of a call.
Threw(message) == [done |-> TRUE, threw |-> TRUE, value |-> message]

\* vm.runInContext(wrapped, context, { timeout: 5000 }): "threw" for an
\* exception of the script (a throw, a name that is not defined, a name
\* declared twice), "timeout" when the budget is exceeded, else the value
\* captured from arrayName.
RECURSIVE Evaluate(_, _, _)
Evaluate(code, bindings, arrayName) ==
    IF \E i, j \in DOMAIN code :
          /\ i # j
          /\ code[i].kind = "const" /\ code[j].kind = "const"
          /\ code[i].name = code[j].name
    THEN [state |-> "threw"]
    ELSE IF code = <<>>
    THEN IF \E b \in bindings : b.name = arrayName
         THEN [state |-> "done",
               value |-> (CHOOSE b \in bindings : b.name = arrayName).value]
         ELSE [state |-> "threw"]
    ELSE LET s == Head(code) IN
         IF s.kind \in {"throw", "call"} THEN [state |-> "threw"]
         ELSE IF s.kind = "loop" THEN [state |-> "timeout"]
         ELSE IF s.kind = "const"
         THEN Evaluate(Tail(code),
                       bindings \cup {[name |-> s.name, value |-> s.value]},
                       arrayName)
         ELSE Evaluate(Tail(code), bindings, arrayName)

\* extractTestsFromSource without the Array.isArray check.
extractTestsFromSourceUnchecked(sourceText) ==
    IF Matches(sourceText) = {} THEN Threw("No <name>Tests array found")
    ELSE LET first == CHOOSE i \in Matches(sourceText) :
                         \A j \in Matches(sourceText) : i <= j
             run == Evaluate(RemoveCall(sourceText), {}, sourceText[first].name)
         IN  IF run.state # "done" THEN Threw("Failed to evaluate")
             ELSE Returned(run.value)

\* extractTestsFromSource(sourceText, sourceName): the array it returns or
\* the error it throws.
extractTestsFromSource(sourceText) ==
    IF Matches(sourceText) = {} THEN Threw("No <name>Tests array found")
    ELSE LET first == CHOOSE i \in Matches(sourceText) :
                         \A j \in Matches(sourceText) : i <= j
             run == Evaluate(RemoveCall(sourceText), {}, sourceText[first].name)
         IN  IF run.state # "done" THEN Threw("Failed to evaluate")
             ELSE IF run.value.t # "list"
             THEN Threw("Extracted test payload is not an array")
             ELSE Returned(run.value)

-----------------------------------------------------------------------------
(* SpecExtract: one call of extractTestsFromSource.                         *)

MaxStatements == 3

ConstNames == TestsNames \cup {"helper"}

ConstValues == { List(<<>>), List(<<Null, Object(<<>>)>>), Object(<<>>), Float(2) }

Statements ==
    { Const(name, bracket, value) :
        name \in ConstNames, bracket \in BOOLEAN, value \in ConstValues }
    \cup { Comment(name) : name \in TestsNames }
    \cup { Statement(kind) : kind \in {"throw", "loop", "call"} }

Sources == UNION { [1..n -> Statements] : n \in 0..MaxStatements }

InitExtract ==
    /\ ProgramIdle
    /\ call \in [fn : {"extractTestsFromSource"}, sourceText : Sources]
    /\ result = NotCalled

CallExtractTestsFromSource ==
    /\ call.fn = "extractTestsFromSource"
    /\ ~result.done
    /\ result' = extractTestsFromSource(call.sourceText)
    /\ UNCHANGED <<bridgeVars, mainVars, builderVars, contextVars, call>>

NextExtract == CallExtractTestsFromSource

SpecExtract == InitExtract /\ [][NextExtract]_vars

-----------------------------------------------------------------------------
(* Properties of the extraction (SpecExtract).                              *)

Extracted == call.fn = "extractTestsFromSource" /\ result.done

\* The evaluation of the source of the call, as extractTestsFromSource runs it.
Evaluation ==
    Evaluate(RemoveCall(call.sourceText), {},
             call.sourceText[CHOOSE i \in Matches(call.sourceText) :
                                \A j \in Matches(call.sourceText) : i <= j].name)

\* C24: extractTestsFromSource returns an array or throws an error, never
\* another value; it throws when the source has no text that matches the
\* declaration of a <name>Tests array, when the evaluation throws, when the
\* evaluation exceeds its time budget and when the value captured is not an
\* array.
C24_ArrayOrExtractionError ==
    Extracted =>
        /\ ~result.threw => result.value.t = "list"
        /\ Matches(call.sourceText) = {} => result.threw
        /\ Matches(call.sourceText) # {} =>
             /\ Evaluation.state = "threw" => result.threw
             /\ Evaluation.state = "timeout" => result.threw
             /\ Evaluation.state = "done" /\ Evaluation.value.t # "list" =>
                  result.threw
             /\ Evaluation.state = "done" /\ Evaluation.value.t = "list" =>
                  result = Returned(Evaluation.value)

\* The text matched and the evaluation ended, but the value captured was an
\* object: the call threw.
C24_Witness ==
    /\ Extracted
    /\ Matches(call.sourceText) # {}
    /\ Evaluation.state = "done"
    /\ Evaluation.value.t = "object"
    /\ result = Threw("Extracted test payload is not an array")

\* The operand names of graph resources: those of the inputs and those of
\* the outputs of the operators.
OperandNames(graphResources) ==
    { graphResources.inputs[i].name : i \in DOMAIN graphResources.inputs }
    \cup UNION { IF Outputs(op).t = "list"
                 THEN { Outputs(op).v[j].v : j \in DOMAIN Outputs(op).v }
                 ELSE IF Outputs(op).t = "string" THEN { Outputs(op).v } ELSE {} :
                 op \in Range(graphResources.operators) }

\* The operand names an argument value refers to, in order: that of an
\* operand reference, those of a list of operand references, none for any
\* other value.
References(value, names) ==
    IF value.t = "string" /\ value.v \in names THEN <<value.v>>
    ELSE IF /\ value.t = "list"
            /\ \A i \in DOMAIN value.v :
                 value.v[i].t = "string" /\ value.v[i].v \in names
    THEN [i \in DOMAIN value.v |-> value.v[i].v]
    ELSE <<>>

\* The operand references of the argument entries, in argument order.
RECURSIVE AllReferences(_, _)
AllReferences(entries, names) ==
    IF entries = <<>> THEN <<>>
    ELSE (IF Head(entries).key = "options" THEN <<>>
          ELSE References(Head(entries).value, names))
         \o AllReferences(Tail(entries), names)

\* C25: the input list of the node of every operator is the list of the
\* operand references among its argument values, in argument order, the
\* members of a list of references in place; every other argument value, a
\* string that is no operand reference included, is in the option bag of the
\* node, under its key, and not in the input list.
C25_ReferencesAndOptionsSeparated ==
    (call.fn = "buildGraphJson" /\ result.done) =>
        \A i \in DOMAIN call.graphResources.operators :
            LET entries ==
                    ArgumentEntries(Arguments(call.graphResources.operators[i]))
                names == OperandNames(call.graphResources)
                node == result.value.nodes[i]
            IN  /\ node.inputs = AllReferences(entries, names)
                /\ \A e \in Range(entries) :
                     e.key # "options" /\ References(e.value, names) = <<>> =>
                        \E o \in Range(node.options) :
                            o.key = e.key /\ o.value = normalizeValue(e.value)

\* n is v with every 64-bit integer replaced by its decimal string, at any
\* depth, and the lists and objects of v kept as they are.
RECURSIVE Stringified(_, _)
Stringified(v, n) ==
    IF v.t = "bigint" THEN n = Str(ToString(v.v))
    ELSE IF v.t = "list"
    THEN /\ n.t = "list"
         /\ Len(n.v) = Len(v.v)
         /\ \A i \in DOMAIN v.v : Stringified(v.v[i], n.v[i])
    ELSE IF v.t = "object"
    THEN /\ n.t = "object"
         /\ Len(n.v) = Len(v.v)
         /\ \A i \in DOMAIN v.v :
              n.v[i].key = v.v[i].key /\ Stringified(v.v[i].value, n.v[i].value)
    ELSE n = v

\* The options objects among the arguments of an operator.
OptionsObjects(op) ==
    { e.value : e \in { a \in Range(ArgumentEntries(Arguments(op))) :
                          a.key = "options" /\ a.value.t = "object" } }

\* C26: every key of the options of an operator is a key of the option bag
\* of its node, with the value of the options, its lists and objects kept and
\* every 64-bit integer in it, at the top level or at any depth, replaced by
\* its decimal string.
C26_OptionsKeepEveryKey ==
    (call.fn = "buildGraphJson" /\ result.done) =>
        \A i \in DOMAIN call.graphResources.operators :
            \A options \in OptionsObjects(call.graphResources.operators[i]) :
                \A p \in Range(options.v) :
                    \E o \in Range(result.value.nodes[i].options) :
                        o.key = p.key /\ Stringified(p.value, o.value)

\* C28: every node of the document buildGraphJson returns has a list of
\* exactly one output name.
C28_OneOutputPerNode ==
    (call.fn = "buildGraphJson" /\ result.done) =>
        \A i \in DOMAIN result.value.nodes :
            Len(result.value.nodes[i].outputs) = 1

-----------------------------------------------------------------------------
(* The precision budget (SpecVerify).                                       *)

\* The call verifies the one-element output a of the operator against e,
\* for the data type.
OneElement(operatorName, dataType, e, a) ==
    /\ call.operatorName = operatorName
    /\ call.expected.descriptor.dataType = dataType
    /\ call.expected.data = <<e>>
    /\ call.actual.data = <<a>>
    /\ SameShape

\* The budget the selection rule gives an operator and a data type.
UlpBudget(operatorName) ==
    IF operatorName \in DOMAIN OP_ULP THEN OP_ULP[operatorName] ELSE 4

AbsoluteBudget(operatorName, dataType) ==
    IF /\ operatorName \in DOMAIN OP_ABS_TOL
       /\ dataType \in DOMAIN OP_ABS_TOL[operatorName]
    THEN OP_ABS_TOL[operatorName][dataType]
    ELSE IF dataType \in {"float32", "float16"} THEN Ratio(1, 10000)
    ELSE Ratio(0, 1)

\* The finite elements of the call are within one of the two budgets.
WithinBudget(i, absTol, ulpTol) ==
    LET e == Number(call.expected.data[i])
        a == Number(call.actual.data[i])
    IN  IsFinite(e) /\ IsFinite(a) =>
           \/ ~ExceedsTol(AbsDiff(a, e), absTol)
           \/ ~ExceedsUlps(ulpDistanceF32(a, e), ulpTol)

\* Every element of the call is a finite number.
AllFinite ==
    \A i \in DOMAIN call.expected.data :
        IsFinite(Number(call.expected.data[i]))
        /\ IsFinite(Number(call.actual.data[i]))

\* C29: a comparison of numbers uses the ULP budget of the operator's table
\* entry, 4 without an entry, and the absolute tolerance of the operator's
\* override for the data type, without one 1e-4 for a floating data type
\* and 0 for any other. So "add" (entry 1) accepts one float32 step at 2^24
\* and "relu" (entry 0) refuses it; "cos" (no entry) accepts four steps and
\* refuses five; 1 + 2^-11 for 1 is accepted for "cos" (override 2^-10 for
\* float32, 2^-7 for float16) and refused for "add" (1e-4) and for "cos" on
\* int32 (0); three steps above 1 are accepted for "relu" on float32 (1e-4)
\* and refused on int32 (0).
C29_BudgetSelection ==
    Verified =>
        /\ (/\ call.expected.descriptor.dataType \notin {"int64", "uint64"}
            /\ SameLength
            /\ SameShape
            /\ AllFinite) =>
              (~result.threw <=>
                 \A i \in DOMAIN call.expected.data :
                    WithinBudget(i,
                        AbsoluteBudget(call.operatorName,
                                       call.expected.descriptor.dataType),
                        UlpBudget(call.operatorName)))
        /\ OneElement("add", "float32", TwoTo24, Natural(Pow2(24) + 2))
               => ~result.threw
        /\ OneElement("relu", "float32", TwoTo24, Natural(Pow2(24) + 2))
               => result.threw
        /\ OneElement("cos", "float32", TwoTo24, Natural(Pow2(24) + 8))
               => ~result.threw
        /\ OneElement("cos", "float32", TwoTo24, Natural(Pow2(24) + 10))
               => result.threw
        /\ OneElement("cos", "float32", Natural(1), OneAndA2048th)
               => ~result.threw
        /\ OneElement("cos", "float16", Natural(1), OneAndA2048th)
               => ~result.threw
        /\ OneElement("add", "float32", Natural(1), OneAndA2048th)
               => result.threw
        /\ OneElement("cos", "int32", Natural(1), OneAndA2048th)
               => result.threw
        /\ OneElement("relu", "float32", Natural(1), OneAndThreeUlps)
               => ~result.threw
        /\ OneElement("relu", "int32", Natural(1), OneAndThreeUlps)
               => result.threw

\* Five float32 steps above 2^24 have been refused for "cos", which has no
\* entry in the table of ULP budgets.
C29_Witness ==
    /\ Verified
    /\ OneElement("cos", "float32", TwoTo24, Natural(Pow2(24) + 10))
    /\ result.threw
    /\ result.value.text = "value mismatch"


\* The sum over the files of the report of one count of the per-file
\* summaries.
RECURSIVE FileSummarySum(_, _)
FileSummarySum(files, count) ==
    IF files = <<>> THEN 0
    ELSE files[1].summary[count] + FileSummarySum(Tail(files), count)

\* C30: at run end the run-level passed, failed and skipped counts are each
\* the sum of that count over the per-file summaries, and summary.total is
\* passed + failed + skipped, whatever outcomes the run had: passed, failed
\* and skipped cases, file errors, a fatal error.
C30_RunCountsAreFileSums ==
    RunEnd =>
        /\ summary.passed = FileSummarySum(reportFiles, "passed")
        /\ summary.failed = FileSummarySum(reportFiles, "failed")
        /\ summary.skipped = FileSummarySum(reportFiles, "skipped")
        /\ summary.total = summary.passed + summary.failed + summary.skipped


\* The number of case records of one file report with the given status.
CasesOfFile(file, status) ==
    Cardinality({ k \in DOMAIN file.cases : file.cases[k].status = status })

\* C31: in every file report the summary's passed, failed and skipped counts
\* are the numbers of that file's case records with status pass, fail and
\* skip, also for a file whose extraction failed.
C31_FileSummaryCountsCases ==
    \A i \in DOMAIN reportFiles :
        /\ reportFiles[i].summary.passed = CasesOfFile(reportFiles[i], "pass")
        /\ reportFiles[i].summary.failed = CasesOfFile(reportFiles[i], "fail")
        /\ reportFiles[i].summary.skipped = CasesOfFile(reportFiles[i], "skip")


-----------------------------------------------------------------------------
(* SpecRunFair: SpecRun with a Node event loop that runs every continuation *)
(* that is ready, and a worker that answers or exits while a request is     *)
(* outstanding.                                                             *)

\* The worker answers an outstanding request, or it exits.
BackendResponds ==
    /\ pending # {}
    /\ \/ ProcExit
       \/ \E l \in Lines(delivered) : RlLine(l) /\ pending' # pending

\* The runs of SpecRunFair: one variant, no limit on the tests, and the
\* flags that end a run early or change its exit code left at their defaults
\* but for stop-on-fail.
FairOptions ==
    { o \in Options : /\ o.variants = <<"cpu">>
                      /\ ~o.limitTests.finite
                      /\ ~o.skipUnimplemented
                      /\ ~o.exitZero }

InitRunFair == InitRun /\ opts \in FairOptions

\* MainAwait can step: the guard of MainAwait, which is all that ENABLED
\* MainAwait requires.
AwaitReady == NodeAlive /\ pc = "await" /\ Settled(handle[curReq])

\* WF_vars(MainAwait), with ENABLED MainAwait written out as AwaitReady.
FairAwait == []<>~AwaitReady \/ []<><<MainAwait>>_vars

SpecRunFair ==
    /\ InitRunFair
    /\ [][NextRun]_vars
    /\ WF_vars(MainStart)
    /\ WF_vars(MainList)
    /\ WF_vars(ReadFile)
    /\ FairAwait
    /\ WF_vars(Exit)
    /\ WF_vars(BackendResponds)

\* main() has reached process.exit(): the bridge is closed and the report
\* finalized, or the invocation was invalid.
Terminated == pc = "exited"

\* C32: when the worker answers every request or exits, the run eventually
\* terminates, also when the worker exits while test cases remain (a line
\* that crashes the Node process aside).
C32_RunTerminates == <>(Terminated \/ uncaught)


-----------------------------------------------------------------------------
(* Verdicts of the test cases (SpecRun).                                    *)

\* The case record that the step out of the await adds to the current file.
NewCase == reportFiles'[fileIdx].cases[Len(reportFiles[fileIdx].cases) + 1]

\* The response that settled promise h holds an output for expected entry e.
InResponse(e, h) == h.state = "resolved" /\ e.name \in DOMAIN h.outputs

\* The verifier accepts the output that the response holds for entry e.
Accepted(test, e, h) ==
    assertOutputClose(normalizeOpName(LastOp(test.graph)), e.name, e.tensor,
                      h.outputs[e.name]) = NoMessage

\* C33: a case is recorded as pass only if its request was answered with ok
\* true and the response holds, for every expected output, an output of
\* that name that the verifier accepted; and an expected output missing
\* from the response makes the case fail.
C33_PassOnlyIfVerified ==
    [][pc = "await" /\ reportFiles' # reportFiles
            => LET test == tests[testIdx]
                   h == handle[curReq]
                   expected == Range(test.graph.expectedOutputs)
               IN  /\ NewCase.status = "pass"
                        => /\ h.state = "resolved"
                           /\ \A e \in expected :
                                InResponse(e, h) /\ Accepted(test, e, h)
                   /\ (\E e \in expected : ~InResponse(e, h))
                        => NewCase.status = "fail"]_vars

\* A run with a passed case, and a failed case whose request was answered
\* with ok true but without the expected output.
C33_Witness ==
    \E i \in DOMAIN reportFiles :
        /\ Len(reportFiles[i].cases) = 2
        /\ reportFiles[i].cases[1].status = "pass"
        /\ reportFiles[i].cases[2].status = "fail"
        /\ handle[2].state = "resolved"
        /\ handle[2].outputs = EmptyOutputs


-----------------------------------------------------------------------------
(* The builder's document and the normalizer's (SpecGraph).                 *)

\* The graphResources object that build(namedOutputs) assembles.
BuildResources(inputs, nodes, namedOutputs) ==
    [inputs |->
        [i \in DOMAIN inputs |->
           Entry(inputs[i].key,
                 [descriptor |-> inputs[i].value.descriptor,
                  data |-> inputs[i].value.data])],
     operators |->
        RenameOutputs(
            [i \in DOMAIN nodes |->
               [name |-> nodes[i].op, arguments |-> nodes[i].arguments,
                outputs |-> nodes[i].outputs]],
            namedOutputs),
     expectedOutputs |->
        [i \in DOMAIN namedOutputs |->
           Entry(namedOutputs[i].key,
                 [descriptor |-> Descriptor(namedOutputs[i].value.dataType,
                                            namedOutputs[i].value.shape),
                  data |-> <<>>])]]

\* Two documents with the same inputs, nodes and outputs.
SameGraph(d1, d2) ==
    /\ d1.inputs = d2.inputs
    /\ d1.nodes = d2.nodes
    /\ d1.outputs = d2.outputs

\* C34: the document that build() emits has the inputs, the nodes (ids,
\* operators, input lists, option bags, output lists) and the outputs of the
\* document that buildGraphJson makes of the same graph resources, whatever
\* calls the builder received and whatever values the options hold.
C34_BuilderMatchesNormalizer ==
    [][\A namedOutputs \in NamedOutputs(operands) :
         BuilderBuild(namedOutputs)
            => SameGraph(graphJson',
                         buildGraphJson(BuildResources(builderInputs,
                                                       builderNodes,
                                                       namedOutputs)))]_vars


-----------------------------------------------------------------------------
(* MLContext (the shim) and executeGraphResources.                          *)

\* new Float32Array(data): every element rounded to float32, kept as its
\* bit pattern.
Float32Array(data) == [i \in DOMAIN data |-> float32Bits(data[i])]

\* new MLTensor(descriptor) of a float32 descriptor: zero data, nothing
\* pending. writers are the ids of the requests whose then() callback, set
\* up by dispatch, writes the tensor.
MLTensor(descriptor) ==
    [descriptor |-> Descriptor(descriptor.dataType, descriptor.shape),
     data |-> Float32Array([i \in 1..Max(product(descriptor.shape), 1) |->
                              Natural(0)]),
     pending |-> 0,
     writers |-> {}]

\* Mutant: the expected tensors are sent whole, data included.
buildExpectedOutputsWithData(graphResources) ==
    IF "expectedOutputs" \notin DOMAIN graphResources THEN <<>>
    ELSE [i \in DOMAIN graphResources.expectedOutputs |->
            Property(graphResources.expectedOutputs[i].name,
                     graphResources.expectedOutputs[i].tensor)]

\* build-graph-json.js: buildExpectedOutputs
buildExpectedOutputs(graphResources) ==
    IF "expectedOutputs" \notin DOMAIN graphResources THEN <<>>
    ELSE [i \in DOMAIN graphResources.expectedOutputs |->
            LET output == graphResources.expectedOutputs[i].tensor IN
            Property(graphResources.expectedOutputs[i].name,
                     [descriptor |-> [dataType |-> output.descriptor.dataType,
                                      shape |-> output.descriptor.shape]])]

\* The line executeGraph writes to the worker's stdin.
Payload(id, graph, inputs, expectedOutputs, contextOptions) ==
    [cmd |-> "execute_graph", id |-> id, graph |-> graph, inputs |-> inputs,
     expected_outputs |-> expectedOutputs, context_options |-> contextOptions]

\* executeGraphResources(runnerClient, graphResources, contextOptions), up
\* to its await.
executeGraphResources(graphResources, contextOptions) ==
    /\ ExecuteGraph
    /\ payloads' = Append(payloads,
           Payload(nextId + 1, buildGraphJson(graphResources),
                   buildRuntimeInputs(graphResources),
                   buildExpectedOutputs(graphResources), contextOptions))

\* MLContext.dispatch(graph, inputs, outputs) with the tensor as output y.
dispatch(graph, inputs, contextOptions) ==
    /\ ExecuteGraph
    /\ payloads' = Append(payloads,
           Payload(nextId + 1, graph,
                   [i \in DOMAIN inputs |->
                      Property(inputs[i].name,
                               [descriptor |-> inputs[i].tensor.descriptor,
                                data |-> toPlainArray(
                                    inputs[i].tensor.data,
                                    inputs[i].tensor.descriptor.dataType)])],
                   <<Property("y", [descriptor |-> outTensor.descriptor])>>,
                   contextOptions))
    /\ outTensor' = [outTensor EXCEPT !.pending = nextId + 1,
                                      !.writers = @ \cup {nextId + 1}]

\* The promise dispatch stored as tensor.pending for request i: it is
\* fulfilled once the then() callback has written the tensor, and rejected
\* when the request was rejected or the callback threw on a missing output.
Written(h) == h.state = "resolved" /\ "y" \in DOMAIN h.outputs

PendingState(h) ==
    IF h.state = "resolved"
    THEN (IF Written(h) THEN "fulfilled" ELSE "rejected")
    ELSE IF h.state = "rejected" THEN "rejected"
    ELSE "pending"

\* The tensor after the then() callbacks of the requests that this step
\* resolved (a step settles one request, or, at the worker's exit, rejects).
AfterCallbacks(t, before, after) ==
    LET ran == { i \in t.writers : before[i].state = "pending"
                                   /\ Written(after[i]) }
    IN  IF ran = {} THEN t
        ELSE LET i == CHOOSE i \in ran : TRUE IN
             [t EXCEPT !.data = Float32Array(after[i].outputs["y"].data)]

\* tensor.data.buffer.slice(0): a copy of the elements.
Returns(t) == [state |-> "returned", awaited |-> t.pending, value |-> t.data]

Throws(t) == [state |-> "threw", awaited |-> t.pending, value |-> <<>>]

\* readTensor resumes in the microtasks of the step that settles the promise
\* it awaits, before any other event is handled.
AfterAwait(r, t, after) ==
    IF r.state # "waiting" THEN r
    ELSE IF PendingState(after[r.awaited]) = "fulfilled"
    THEN [Returns(t) EXCEPT !.awaited = r.awaited]
    ELSE IF PendingState(after[r.awaited]) = "rejected"
    THEN [Throws(t) EXCEPT !.awaited = r.awaited]
    ELSE r

\* MLContext.readTensor(tensor): it returns or throws at once when nothing
\* is pending or tensor.pending is settled, else it awaits tensor.pending.
readTensor ==
    /\ reading.state # "waiting"
    /\ reading' =
         IF outTensor.pending = 0 THEN Returns(outTensor)
         ELSE IF PendingState(handle[outTensor.pending]) = "fulfilled"
         THEN Returns(outTensor)
         ELSE IF PendingState(handle[outTensor.pending]) = "rejected"
         THEN Throws(outTensor)
         ELSE [state |-> "waiting", awaited |-> outTensor.pending,
               value |-> <<>>]

-----------------------------------------------------------------------------
(* SpecContext: one RunnerClient shared by an MLContext with one output     *)
(* tensor and by callers of executeGraphResources. A rejected pending       *)
(* promise that nothing awaits is left unhandled and the program runs on.   *)

\* The graph resources of the callers of executeGraphResources.
ContextResources ==
    { [inputs |-> << Entry("a", Tensor(dataType, <<1>>, List(<<v>>))) >>,
       operators |-> << op >>,
       expectedOutputs |->
           << Entry("y", Tensor("float32", <<2>>,
                                List(<<Float(1), Float(2)>>))) >>] :
      dataType \in {"int64"}, v \in {Int64(TRUE, <<0, 0, 0, 7>>)},
      op \in { o \in OperatorCatalogue : o.name = "split" } }
    \cup
    { [inputs |-> << Entry("a", Tensor("float32", <<1>>, Float(3))) >>,
       operators |-> <<>>,
       expectedOutputs |-> <<>>] }

\* The inputs of a dispatch: MLTensors that were written.
ContextInputs ==
    { << Entry("a", Tensor("int64", <<1>>, <<Int64(TRUE, <<0, 0, 0, 7>>)>>)) >> }

ContextOptions == { [deviceType |-> "cpu"] }

InitContext ==
    /\ spawned = 1
    /\ procState = "running"
    /\ killed = FALSE
    /\ stdinEnds = 0
    /\ termSignals = 0
    /\ closeCalls = 0
    /\ pending = {}
    /\ handle = [i \in Ids |-> FreshHandle]
    /\ nextId = 0
    /\ delivered = {}
    /\ uncaught = FALSE
    /\ MainIdle
    /\ CallIdle
    /\ NewBuilder
    /\ opts = CHOOSE o \in Options : TRUE
    /\ fs = CHOOSE f \in FileSystems : TRUE
    /\ outTensor = MLTensor(Descriptor("float32", <<2>>))
    /\ reading = NoRead
    /\ payloads = <<>>

CallerDispatch ==
    /\ NodeAlive
    /\ nextId < MaxRequests
    /\ \E inputs \in ContextInputs : \E o \in ContextOptions :
         dispatch(BuildGraph(<<>>, <<>>, <<>>), inputs, o)
    /\ UNCHANGED reading
    /\ UNCHANGED <<mainVars, callVars, builderVars>>

CallerExecuteGraphResources ==
    /\ NodeAlive
    /\ nextId < MaxRequests
    /\ \E graphResources \in ContextResources : \E o \in ContextOptions :
         executeGraphResources(graphResources, o)
    /\ UNCHANGED <<outTensor, reading>>
    /\ UNCHANGED <<mainVars, callVars, builderVars>>

CallerReadTensor ==
    /\ NodeAlive
    /\ readTensor
    /\ UNCHANGED <<outTensor, payloads>>
    /\ UNCHANGED <<bridgeVars, mainVars, callVars, builderVars>>

\* A line from the worker: the 'line' handler, then the callbacks and the
\* awaits that the promise it settled lets run.
ContextLine ==
    \E l \in Lines(delivered) :
        /\ NodeAlive
        /\ LineEffect(l)
        /\ outTensor' = AfterCallbacks(outTensor, handle, handle')
        /\ reading' = AfterAwait(reading, outTensor', handle')
        /\ UNCHANGED <<spawned, procState, killed, stdinEnds, termSignals,
                       closeCalls, nextId, delivered, payloads>>
        /\ UNCHANGED <<mainVars, callVars, builderVars>>

\* The worker exits: the 'exit' handler rejects what is pending, and an
\* await of a rejected promise throws.
ContextExit ==
    /\ NodeAlive
    /\ procState = "running"
    /\ procState' = "exited"
    /\ handle' = ExitHandles(pending, handle)
    /\ pending' = ExitPending(pending)
    /\ reading' = AfterAwait(reading, outTensor, handle')
    /\ UNCHANGED <<spawned, killed, stdinEnds, termSignals, closeCalls,
                   nextId, delivered, uncaught, outTensor, payloads>>
    /\ UNCHANGED <<mainVars, callVars, builderVars>>

NextContext ==
    \/ CallerDispatch
    \/ CallerExecuteGraphResources
    \/ CallerReadTensor
    \/ ContextLine
    \/ ContextExit

SpecContext == InitContext /\ [][NextContext]_vars


-----------------------------------------------------------------------------
(* Properties of the MLContext and of the payloads (SpecContext).           *)

\* The data that the dispatch of request i produced.
Produced(i) == Float32Array(handle[i].outputs["y"].data)

\* The last dispatch so far has written the tensor.
LastDispatchWritten ==
    outTensor.pending # 0 /\ Written(handle[outTensor.pending])

\* readTensor was called after the last dispatch so far, and it returned.
ReadAfterLastDispatch ==
    /\ reading.state = "returned"
    /\ reading.awaited # 0
    /\ reading.awaited = outTensor.pending

\* C35: after several dispatches to the same output tensor, answered in any
\* order, once the last dispatch has written the tensor its data stays the
\* data of that dispatch (no earlier dispatch overwrites it), and a
\* readTensor issued after the last dispatch returns that data.
C35_LastDispatchWins ==
    /\ LastDispatchWritten => outTensor.data = Produced(outTensor.pending)
    /\ ReadAfterLastDispatch => reading.value = Produced(reading.awaited)


\* The value of an entry of expected_outputs holds a descriptor of data type
\* and shape, and nothing else.
DescriptorOnly(value) ==
    /\ DOMAIN value = {"descriptor"}
    /\ DOMAIN value.descriptor = {"dataType", "shape"}

\* C36: the expected_outputs of every execute_graph request, of a test case
\* (executeGraphResources) or of a dispatch, hold for each output its
\* descriptor only: no request carries expected output values.
C36_NoExpectedValuesSent ==
    \A i \in DOMAIN payloads :
        /\ payloads[i].cmd = "execute_graph"
        /\ \A k \in DOMAIN payloads[i].expected_outputs :
             DescriptorOnly(payloads[i].expected_outputs[k].value)

\* A request of a dispatch and a request of graph resources whose expected
\* output has data have both been sent, each with one expected output.
C36_Witness ==
    /\ Len(payloads) = 2
    /\ payloads[1].graph.name = "ml_builder_graph"
    /\ payloads[2].graph.name = "wpt_graph"
    /\ \A i \in 1..2 : Len(payloads[i].expected_outputs) = 1
    /\ payloads[2].expected_outputs[1].key = "y"

====
